---------------------------- MODULE Spec2Model ----------------------------
(***************************************************************************)
(* State-machine model of the lsk_muduo reactor runtime and the AGV        *)
(* gateway built on it: TimerQueue, TcpConnection, the length-header       *)
(* framing loop of GatewayServer, the session table and its watchdog, and  *)
(* the NavigationTask worker hand-off.                                     *)
(*                                                                         *)
(* Each subsystem has its own specifications (SpecTQ; SpecConn and         *)
(* FairSpecConn; SpecGw and SpecFraming; FairSpecWk); a specification      *)
(* leaves the variables of the other subsystems at their initial value.    *)
(***************************************************************************)
EXTENDS Integers, Sequences, FiniteSets, TLC

(***************************************************************************)
(* Generic helpers                                                         *)
(***************************************************************************)
Nil == "nil"

Range(s) == { s[i] : i \in 1..Len(s) }

SeqDrop(s, n) == SubSeq(s, n + 1, Len(s))

SeqTake(s, n) == SubSeq(s, 1, n)

(***************************************************************************)
(* State                                                                   *)
(***************************************************************************)
\* TimerQueue
VARIABLES tq_now, timers_, activeTimers_, cancelingTimers_,
          callingExpiredTimers_, heap, s_numCreated_, timerfdAt,
          runLog, cancelDone

tqVars == << tq_now, timers_, activeTimers_, cancelingTimers_,
             callingExpiredTimers_, heap, s_numCreated_, timerfdAt,
             runLog, cancelDone >>

\* TcpConnection, its loop, its server and its socket
VARIABLES state_, reading, writing, outputBuffer_, pendingFunctors_,
          mainPending, connections_, wire, sockWrShut, peer, rcvPending,
          shutLog, faulted, faultError, downCalls, lastOp, nextByte,
          subReactor, delayTimer, sendLog

connVars == << state_, reading, writing, outputBuffer_, pendingFunctors_,
               mainPending, connections_, wire, sockWrShut, peer, rcvPending,
               shutLog, faulted, faultError, downCalls, lastOp, nextByte,
               subReactor, delayTimer, sendLog >>

\* GatewayServer: its connections as the server sees them, the bytes of each
\* peer, the session table and the clock
VARIABLES gwNow, connUp, connShutdown, inputBuffer_, inflight, sentFrames,
          dispatched, junk, sessions_, gwConnections_, chargeSent, gwOp,
          segmenting, lowRun, episodes

gwVars == << gwNow, connUp, connShutdown, inputBuffer_, inflight, sentFrames,
             dispatched, junk, sessions_, gwConnections_, chargeSent, gwOp,
             segmenting, lowRun, episodes >>

\* the worker pool of the gateway and the NavigationTasks of one connection
VARIABLES numThreads, queue_, workerTask, workerStage, wkConnUp, wkPending,
          taskState, wkResponses, nextTask

wkVars == << numThreads, queue_, workerTask, workerStage, wkConnUp, wkPending,
             taskState, wkResponses, nextTask >>

\* what the steps of one subsystem leave alone
VARIABLES running_, maxQueueSize_, poolThreads, poolQueue, threadPc,
          threadTask, notEmptyWoken, producerPc, producerTask, notFullWoken,
          stopPc, submitted, accepted, executed, acceptedAtStop

plVars == << running_, maxQueueSize_, poolThreads, poolQueue, threadPc,
             threadTask, notEmptyWoken, producerPc, producerTask,
             notFullWoken, stopPc, submitted, accepted, executed,
             acceptedAtStop >>

VARIABLES map_, sessObjs, tcpObjs, ioThread, taskQueue, smWorker,
          loopFunctors, smResponses, smCancelled, smFault, smOp, smCalls,
          smCommands

smVars == << map_, sessObjs, tcpObjs, ioThread, taskQueue, smWorker,
             loopFunctors, smResponses, smCancelled, smFault, smOp, smCalls,
             smCommands >>

VARIABLES connectorState, connect_, retryDelayMs_, retryTimers, retryCount,
          startPending, stopPending, sockOpen, cnFault, cnOp, cnCalls

cnVars == << connectorState, connect_, retryDelayMs_, retryTimers,
             retryCount, startPending, stopPending, sockOpen, cnFault, cnOp,
             cnCalls >>

VARIABLES buffer_, readerIndex_, writerIndex_, bufBad, bufOp, cdPending,
          cdCalls

bfVars == << buffer_, readerIndex_, writerIndex_, bufBad, bufOp, cdPending,
             cdCalls >>

VARIABLES handlers_, defaultCallback_, dpOp

dpVars == << handlers_, defaultCallback_, dpOp >>

VARIABLES next_seq_num_, pending_probes_, stats_, lmNow, lmOp

lmVars == << next_seq_num_, pending_probes_, stats_, lmNow, lmOp >>

tqOthers == << connVars, gwVars, wkVars, plVars, smVars, cnVars, bfVars,
               dpVars, lmVars >>

connOthers == << tqVars, gwVars, wkVars, plVars, smVars, cnVars, bfVars,
    dpVars, lmVars >>

gwOthers == << tqVars, connVars, wkVars, plVars, smVars, cnVars, bfVars,
    dpVars, lmVars >>

wkOthers == << tqVars, connVars, gwVars, plVars, smVars, cnVars, bfVars,
    dpVars, lmVars >>

plOthers == << tqVars, connVars, gwVars, wkVars, smVars, cnVars, bfVars,
    dpVars, lmVars >>

smOthers == << tqVars, connVars, gwVars, wkVars, plVars, cnVars, bfVars,
    dpVars, lmVars >>

cnOthers == << tqVars, connVars, gwVars, wkVars, plVars, smVars, bfVars,
    dpVars, lmVars >>

bfOthers == << tqVars, connVars, gwVars, wkVars, plVars, smVars, cnVars,
              dpVars, lmVars >>

dpOthers == << tqVars, connVars, gwVars, wkVars, plVars, smVars, cnVars,
              bfVars, lmVars >>

lmOthers == << tqVars, connVars, gwVars, wkVars, plVars, smVars, cnVars,
              bfVars, dpVars >>

vars == << tqVars, connVars, gwVars, wkVars, plVars, smVars, cnVars,
          bfVars, dpVars, lmVars >>

(***************************************************************************)
(*                              TimerQueue                                 *)
(*                                                                         *)
(* Time is in microseconds.  A Timer lives at an address and has a       *)
(* unique sequence number; timers_ is ordered by (expiration, address),    *)
(* activeTimers_ and cancelingTimers_ hold (address, sequence) pairs.      *)
(* What a timer's callback does is an attribute of the timer: nothing, or  *)
(* cancel(id) for some TimerId (possibly its own).                         *)
(***************************************************************************)
\* bounds of the timer model
MaxTimers == 2
MaxNow == 400
TickStep == 100
MaxDelay == 100
Intervals == {0, TickStep}

\* howMuchTimeFromNow clamps the programmed delay to at least 100 us
kMinTimerDelay == 100

TimerAddrs == 1..MaxTimers

\* the sentry address of getExpired, above every timer address
UINTPTR_MAX == MaxTimers + 1

NoTimer == [seq |-> -1, expiration |-> -1, interval |-> 0, cancels |-> << >>,
            born |-> 0]

Times == { t \in 0..MaxNow : t % TickStep = 0 }

\* std::pair ordering of Entry = (Timestamp, Timer*)
EntryLess(a, b) == \/ a[1] < b[1]
                   \/ a[1] = b[1] /\ a[2] < b[2]

\* timers_.begin(): the least entry of a non-empty set of entries
MinEntry(S) == CHOOSE e \in S : \A f \in S : f = e \/ EntryLess(e, f)

\* the entries of a set in the order of timers_, which getExpired copies
RECURSIVE SortEntries(_)
SortEntriesLatestFirstMut(S) == IF S = {} THEN << >>
                                ELSE LET m == CHOOSE e \in S : \A f \in S : f = e \/ EntryLess(f, e)
                                     IN  << m >> \o SortEntries(S \ {m})

SortEntries(S) == IF S = {} THEN << >>
                  ELSE LET m == MinEntry(S)
                       IN  << m >> \o SortEntries(S \ {m})

\* Timer::repeat(): repeat_ is interval > 0.0
Repeat(t) == t.interval > 0

\* Timer::restart(now)
Restart(t, now) == IF Repeat(t)
                   THEN [t EXCEPT !.expiration = now + t.interval]
                   ELSE [t EXCEPT !.expiration = -1]

\* resetTimerfd(timerfd, expiration) with howMuchTimeFromNow's clamp
ResetTimerfd(expiration, now) ==
    IF expiration - now < kMinTimerDelay THEN now + kMinTimerDelay
    ELSE expiration

\* The queue state threaded through the callbacks of one handleRead batch.
TQState == [timers |-> timers_, active |-> activeTimers_,
            canceling |-> cancelingTimers_, calling |-> callingExpiredTimers_,
            hp |-> heap, log |-> runLog, done |-> cancelDone]

\* TimerQueue::cancelInLoop(timerId) applied to a queue state
CancelInLoopNoCancelingMut(q, id) ==
    IF id \in q.active
    THEN [q EXCEPT !.timers = @ \ { << q.hp[id[1]].expiration, id[1] >> },
                   !.hp[id[1]] = NoTimer,
                   !.active = @ \ {id},
                   !.done = @ \cup {id[2]}]
    ELSE [q EXCEPT !.done = @ \cup {id[2]}]

CancelInLoop(q, id) ==
    IF id \in q.active
    THEN [q EXCEPT !.timers = @ \ { << q.hp[id[1]].expiration, id[1] >> },
                   !.hp[id[1]] = NoTimer,
                   !.active = @ \ {id},
                   !.done = @ \cup {id[2]}]
    ELSE IF q.calling
         THEN [q EXCEPT !.canceling = @ \cup {id},
                        !.done = @ \cup {id[2]}]
         ELSE [q EXCEPT !.done = @ \cup {id[2]}]

\* Timer::run(): the callback of the timer at address p; it is recorded in
\* the run log and performs its cancel() calls inline on the loop thread.
RECURSIVE CancelAll(_, _)
CancelAll(q, ids) == IF ids = << >> THEN q
                     ELSE CancelAll(CancelInLoop(q, Head(ids)), Tail(ids))

Run(q, p) ==
    LET t  == q.hp[p]
        q1 == [q EXCEPT !.log = Append(@, [seq |-> t.seq,
                                            expiration |-> t.expiration,
                                            repeat |-> Repeat(t),
                                            born |-> t.born,
                                            cancelsSelf |-> << p, t.seq >> \in Range(t.cancels),
                                            cancelled |-> t.seq \in q.done])]
    IN  CancelAll(q1, t.cancels)

\* the for loop of handleRead over the expired entries
RECURSIVE RunExpired(_, _)
RunExpired(q, expired) ==
    IF expired = << >> THEN q
    ELSE RunExpired(Run(q, Head(expired)[2]), Tail(expired))

\* TimerQueue::insert(timer) applied to a queue state
Insert(q, p) ==
    [q EXCEPT !.timers = @ \cup { << q.hp[p].expiration, p >> },
              !.active = @ \cup { << p, q.hp[p].seq >> }]

\* TimerQueue::reset(expired, now): restart or delete every expired timer
RECURSIVE ResetExpired(_, _, _)
ResetExpired(q, expired, now) ==
    IF expired = << >> THEN q
    ELSE LET p  == Head(expired)[2]
             id == << p, q.hp[p].seq >>
             q1 == IF Repeat(q.hp[p]) /\ id \notin q.canceling
                   THEN Insert([q EXCEPT !.hp[p] = Restart(@, now)], p)
                   ELSE [q EXCEPT !.hp[p] = NoTimer]
         IN  ResetExpired(q1, Tail(expired), now)

\* TimerQueue::getExpired(now): entries below the sentry (now, UINTPTR_MAX)
GetExpired(now) ==
    SortEntries({ e \in timers_ : EntryLess(e, << now, UINTPTR_MAX >>) })

InitTQ ==
    /\ tq_now = TickStep
    /\ timers_ = {}
    /\ activeTimers_ = {}
    /\ cancelingTimers_ = {}
    /\ callingExpiredTimers_ = FALSE
    /\ heap = [p \in TimerAddrs |-> NoTimer]
    /\ s_numCreated_ = 0
    /\ timerfdAt = -1
    /\ runLog = << >>
    /\ cancelDone = {}

\* TimerQueue::addTimer + addTimerInLoop: allocate a Timer at a free address
\* and insert it; the callback's cancel targets are ids known to the caller.
\* The expiration is any time near the clock: runAt takes a time that has
\* passed as well, and a runAfter of another thread is inserted later than
\* its expiration was computed.
AddTimer ==
    /\ s_numCreated_ < MaxTimers
    /\ \E p \in { a \in TimerAddrs : heap[a] = NoTimer },
          when \in { t \in Times : t >= tq_now - MaxDelay /\ t <= tq_now + MaxDelay },
          interval \in Intervals :
       LET self == << p, s_numCreated_ >>
       IN  \E cancels \in {<< >>} \cup { << id >> : id \in activeTimers_ \cup {self} } :
           LET t == [seq |-> s_numCreated_, expiration |-> when,
                     interval |-> interval, cancels |-> cancels,
                     born |-> Len(runLog)]
               earliestChanged == timers_ = {} \/ when < MinEntry(timers_)[1]
           IN  /\ heap' = [heap EXCEPT ![p] = t]
               /\ timers_' = timers_ \cup { << when, p >> }
               /\ activeTimers_' = activeTimers_ \cup { self }
               /\ s_numCreated_' = s_numCreated_ + 1
               /\ timerfdAt' = IF earliestChanged THEN ResetTimerfd(when, tq_now)
                               ELSE timerfdAt
    /\ UNCHANGED << tq_now, cancelingTimers_, callingExpiredTimers_, runLog,
                    cancelDone >>
    /\ UNCHANGED tqOthers

\* TimerQueue::cancel(timerId) run on the loop thread between callbacks
Cancel ==
    /\ \E id \in activeTimers_ :
       LET q == CancelInLoop(TQState, id)
       IN  /\ timers_' = q.timers
           /\ activeTimers_' = q.active
           /\ cancelingTimers_' = q.canceling
           /\ heap' = q.hp
           /\ cancelDone' = q.done
    /\ UNCHANGED << tq_now, callingExpiredTimers_, s_numCreated_, timerfdAt,
                    runLog >>
    /\ UNCHANGED tqOthers

\* the monotonic clock advances
TickTQ ==
    /\ tq_now + TickStep <= MaxNow
    /\ tq_now' = tq_now + TickStep
    /\ UNCHANGED << timers_, activeTimers_, cancelingTimers_,
                    callingExpiredTimers_, heap, s_numCreated_, timerfdAt,
                    runLog, cancelDone >>
    /\ UNCHANGED tqOthers

\* TimerQueue::handleRead(): the timerfd became readable
HandleReadTQ ==
    /\ timerfdAt >= 0
    /\ timerfdAt <= tq_now
    /\ LET expired == GetExpired(tq_now)
           q0 == [TQState EXCEPT
                    !.timers = @ \ Range(expired),
                    !.active = @ \ { << e[2], heap[e[2]].seq >> : e \in Range(expired) },
                    !.calling = TRUE,
                    !.canceling = {}]
           q1 == RunExpired(q0, expired)
           q2 == ResetExpired([q1 EXCEPT !.calling = FALSE], expired, tq_now)
       IN  /\ timers_' = q2.timers
           /\ activeTimers_' = q2.active
           /\ cancelingTimers_' = q2.canceling
           /\ callingExpiredTimers_' = q2.calling
           /\ heap' = q2.hp
           /\ runLog' = q2.log
           /\ cancelDone' = q2.done
           /\ timerfdAt' = IF q2.timers # {}
                           THEN ResetTimerfd(MinEntry(q2.timers)[1], tq_now)
                           ELSE -1
    /\ UNCHANGED << tq_now, s_numCreated_ >>
    /\ UNCHANGED tqOthers

NextTQ == AddTimer \/ Cancel \/ TickTQ \/ HandleReadTQ

(***************************************************************************)
(*                             TcpConnection                               *)
(*                                                                         *)
(* One connection of a TcpServer, its channel interest, its output buffer, *)
(* the pending-functor queue of its I/O loop, the pending-functor queue of *)
(* the server's main loop, and the socket as the kernel presents it.       *)
(* Bytes handed to send() are numbered so that their order on the wire can *)
(* be observed.  writeCompleteCallback_ and highWaterMarkCallback_ are     *)
(* left unset, as GatewayServer leaves them.                               *)
(***************************************************************************)
\* bounds of the connection model
MaxBytes == 2
MaxSendLen == 2
MaxPending == 2
MaxDelayTimers == 1

Functor(f, data) == [f |-> f, data |-> data]

\* the fields of the connection that its handlers change
Conn == [state |-> state_, rd |-> reading, wr |-> writing,
         out |-> outputBuffer_, pend |-> pendingFunctors_,
         mpend |-> mainPending, inMap |-> connections_, wire |-> wire,
         wrShut |-> sockWrShut, shutLog |-> shutLog, faulted |-> faulted,
         fe |-> FALSE, down |-> downCalls, sent |-> sendLog]

\* what ::write(fd, data, len) can return on the socket: -1 stands for
\* EPIPE / ECONNRESET, 0 for EWOULDBLOCK, n > 0 for n bytes written
WriteResults(c, len) ==
    IF c.wrShut \/ peer = "rst" THEN {-1} ELSE 0..len

\* TcpConnection::sendInLoop(data, len) with the result res of ::write; the
\* data of every call is also recorded, in the order of the calls, in sent
SendInLoopNoEnableMut(c, data, res) ==
    IF c.state = "kDisconnected" THEN [c EXCEPT !.sent = @ \o data]
    ELSE LET direct == ~c.wr /\ c.out = << >>
             nwrote == IF direct /\ res > 0 THEN res ELSE 0
             fault  == direct /\ res = -1
             remaining == Len(data) - nwrote
             c1 == [c EXCEPT !.wire = @ \o SeqTake(data, nwrote),
                             !.fe = fault,
                             !.faulted = @ \/ fault,
                             !.sent = @ \o data]
         IN  IF ~fault /\ remaining > 0
             THEN [c1 EXCEPT !.out = @ \o SeqDrop(data, nwrote)]
             ELSE c1

SendInLoopBufferOnFaultMut(c, data, res) ==
    IF c.state = "kDisconnected" THEN [c EXCEPT !.sent = @ \o data]
    ELSE LET direct == ~c.wr /\ c.out = << >>
             nwrote == IF direct /\ res > 0 THEN res ELSE 0
             fault  == direct /\ res = -1
             remaining == Len(data) - nwrote
             c1 == [c EXCEPT !.wire = @ \o SeqTake(data, nwrote),
                             !.fe = fault,
                             !.faulted = @ \/ fault,
                             !.sent = @ \o data]
         IN  IF remaining > 0
             THEN [c1 EXCEPT !.out = @ \o SeqDrop(data, nwrote),
                             !.wr = TRUE]
             ELSE c1

SendInLoop(c, data, res) ==
    IF c.state = "kDisconnected" THEN [c EXCEPT !.sent = @ \o data]
    ELSE LET direct == ~c.wr /\ c.out = << >>
             nwrote == IF direct /\ res > 0 THEN res ELSE 0
             fault  == direct /\ res = -1
             remaining == Len(data) - nwrote
             c1 == [c EXCEPT !.wire = @ \o SeqTake(data, nwrote),
                             !.fe = fault,
                             !.faulted = @ \/ fault,
                             !.sent = @ \o data]
         IN  IF ~fault /\ remaining > 0
             THEN [c1 EXCEPT !.out = @ \o SeqDrop(data, nwrote),
                             !.wr = TRUE]
             ELSE c1

\* TcpConnection::shutdownInLoop(): socket_->shutdownWrite() unless writing
ShutdownInLoopUncheckedMut(c) ==
    [c EXCEPT !.wrShut = TRUE,
              !.shutLog = @ \cup {[state |-> c.state,
                                   buffered |-> Len(c.out)]}]

ShutdownInLoop(c) ==
    IF ~c.wr
    THEN [c EXCEPT !.wrShut = TRUE,
                   !.shutLog = @ \cup {[state |-> c.state,
                                        buffered |-> Len(c.out)]}]
    ELSE c

\* TcpServer::removeConnectionInLoop(conn)
RemoveConnectionInLoopNoEraseMut(c) ==
    [c EXCEPT !.pend = Append(@, Functor("connectDestroyed", << >>))]

RemoveConnectionInLoop(c) ==
    [c EXCEPT !.inMap = FALSE,
              !.pend = Append(@, Functor("connectDestroyed", << >>))]

\* TcpServer::removeConnection(conn): runInLoop on the server's main loop
RemoveConnection(c) ==
    IF subReactor
    THEN [c EXCEPT !.mpend = Append(@, Functor("removeConnectionInLoop", << >>))]
    ELSE RemoveConnectionInLoop(c)

\* TcpConnection::handleClose()
HandleClose(c) ==
    RemoveConnection([c EXCEPT !.state = "kDisconnected",
                               !.rd = FALSE, !.wr = FALSE,
                               !.down = @ + 1])

\* TcpConnection::forceCloseInLoop()
ForceCloseInLoop(c) ==
    IF c.state \in {"kConnected", "kDisconnecting"} THEN HandleClose(c) ELSE c

\* TcpConnection::connectEstablished()
ConnectEstablished(c) ==
    [c EXCEPT !.state = "kConnected", !.rd = TRUE]

\* TcpConnection::connectDestroyed()
ConnectDestroyedAlwaysMut(c) ==
    [c EXCEPT !.state = "kDisconnected", !.rd = FALSE, !.wr = FALSE,
              !.down = @ + 1]

ConnectDestroyed(c) ==
    IF c.state = "kConnected"
    THEN [c EXCEPT !.state = "kDisconnected", !.rd = FALSE, !.wr = FALSE,
                   !.down = @ + 1]
    ELSE c

\* TcpConnection::handleWrite() with the result n of outputBuffer_.writeFd
HandleWriteNoRetrieveMut(c, n) ==
    IF c.wr
    THEN IF n > 0
         THEN LET c1 == [c EXCEPT !.wire = @ \o SeqTake(c.out, n)]
              IN  IF n = Len(c.out)
                  THEN LET c2 == [c1 EXCEPT !.wr = FALSE]
                       IN  IF c2.state = "kDisconnecting"
                           THEN ShutdownInLoop(c2) ELSE c2
                  ELSE c1
         ELSE c
    ELSE c

HandleWrite(c, n) ==
    IF c.wr
    THEN IF n > 0
         THEN LET c1 == [c EXCEPT !.wire = @ \o SeqTake(c.out, n),
                                  !.out = SeqDrop(@, n)]
              IN  IF c1.out = << >>
                  THEN LET c2 == [c1 EXCEPT !.wr = FALSE]
                       IN  IF c2.state = "kDisconnecting"
                           THEN ShutdownInLoop(c2) ELSE c2
                  ELSE c1
         ELSE c
    ELSE c

\* the new values of the connection's fields after a handler
Commit(c, op) ==
    /\ state_' = c.state
    /\ reading' = c.rd
    /\ writing' = c.wr
    /\ outputBuffer_' = c.out
    /\ pendingFunctors_' = c.pend
    /\ mainPending' = c.mpend
    /\ connections_' = c.inMap
    /\ wire' = c.wire
    /\ sockWrShut' = c.wrShut
    /\ shutLog' = c.shutLog
    /\ faulted' = c.faulted
    /\ faultError' = c.fe
    /\ downCalls' = c.down
    /\ sendLog' = c.sent
    /\ lastOp' = op
    /\ UNCHANGED connOthers

\* functors that hold a TcpConnectionPtr (the others bind a raw this)
SharedHolders == {"connectEstablished", "connectDestroyed",
                  "forceCloseInLoop", "removeConnectionInLoop"}

\* the connection object has not been destructed: the server map or a queued
\* functor still owns it
Alive == \/ connections_
         \/ \E i \in 1..Len(pendingFunctors_) : pendingFunctors_[i].f \in SharedHolders
         \/ \E i \in 1..Len(mainPending) : mainPending[i].f \in SharedHolders

InitConn ==
    /\ state_ = "kConnecting"
    /\ reading = FALSE
    /\ writing = FALSE
    /\ outputBuffer_ = << >>
    /\ pendingFunctors_ = << Functor("connectEstablished", << >>) >>
    /\ mainPending = << >>
    /\ connections_ = TRUE
    /\ wire = << >>
    /\ sockWrShut = FALSE
    /\ peer = "open"
    /\ rcvPending = FALSE
    /\ shutLog = {}
    /\ faulted = FALSE
    /\ faultError = FALSE
    /\ downCalls = 0
    /\ sendLog = << >>
    /\ lastOp = "newConnection"
    /\ nextByte = 1
    /\ subReactor \in BOOLEAN
    /\ delayTimer = 0

connEnv == << peer, rcvPending, nextByte, subReactor, delayTimer >>

\* TcpConnection::send(buf) called on the loop thread (inLoop) or on another
\* thread, which queues sendInLoop
Send ==
    /\ Alive
    /\ state_ = "kConnected"
    /\ \E len \in 1..MaxSendLen, inLoop \in BOOLEAN :
        /\ nextByte + len - 1 <= MaxBytes
        /\ LET data == [i \in 1..len |-> nextByte + i - 1]
           IN  IF inLoop
               THEN \E res \in WriteResults(Conn, len) :
                        Commit(SendInLoop(Conn, data, res), "send")
               ELSE /\ Len(pendingFunctors_) < MaxPending
                    /\ Commit([Conn EXCEPT !.pend = Append(@, Functor("sendInLoop", data))],
                              "send")
        /\ nextByte' = nextByte + len
    /\ UNCHANGED << peer, rcvPending, subReactor, delayTimer >>

\* TcpConnection::shutdown()
Shutdown ==
    /\ Alive
    /\ state_ = "kConnected"
    /\ \E inLoop \in BOOLEAN :
        LET c == [Conn EXCEPT !.state = "kDisconnecting"]
        IN  IF inLoop
            THEN Commit(ShutdownInLoop(c), "shutdown")
            ELSE /\ Len(pendingFunctors_) < MaxPending
                 /\ Commit([c EXCEPT !.pend = Append(@, Functor("shutdownInLoop", << >>))],
                           "shutdown")
    /\ UNCHANGED connEnv

\* the body of TcpConnection::forceClose()
ForceCloseBody(c) ==
    IF c.state \in {"kConnected", "kDisconnecting"}
    THEN [c EXCEPT !.state = "kDisconnecting",
                   !.pend = Append(@, Functor("forceCloseInLoop", << >>))]
    ELSE c

\* TcpConnection::forceClose()
ForceClose ==
    /\ Alive
    /\ state_ \in {"kConnected", "kDisconnecting"}
    /\ Len(pendingFunctors_) < MaxPending
    /\ Commit(ForceCloseBody(Conn), "forceClose")
    /\ UNCHANGED connEnv

\* TcpConnection::forceCloseWithDelay(seconds)
ForceCloseWithDelay ==
    /\ Alive
    /\ state_ \in {"kConnected", "kDisconnecting"}
    /\ delayTimer < MaxDelayTimers
    /\ Commit([Conn EXCEPT !.state = "kDisconnecting"], "forceCloseWithDelay")
    /\ delayTimer' = delayTimer + 1
    /\ UNCHANGED << peer, rcvPending, nextByte, subReactor >>

\* WeakCallback::operator() bound to TcpConnection::forceClose: alive is
\* what object_.lock() finds
WeakCallbackUnguardedMut(alive, c) ==
    [conn |-> ForceCloseBody(c), called |-> TRUE]

WeakCallback(alive, c) ==
    IF alive THEN [conn |-> ForceCloseBody(c), called |-> TRUE]
    ELSE [conn |-> c, called |-> FALSE]

\* the timer of forceCloseWithDelay expires: WeakCallback::operator()
DelayTimerFires ==
    /\ delayTimer > 0
    /\ Len(pendingFunctors_) < MaxPending
    /\ delayTimer' = delayTimer - 1
    /\ Commit(WeakCallback(Alive, Conn).conn,
              IF WeakCallback(Alive, Conn).called THEN "weakCallback"
              ELSE "weakCallbackSkipped")
    /\ UNCHANGED << peer, rcvPending, nextByte, subReactor >>

\* TcpConnection::handleRead(): the channel reports the socket readable
HandleRead ==
    /\ reading
    /\ \/ /\ rcvPending
          /\ rcvPending' = FALSE
          /\ Commit(Conn, "messageCallback")
       \/ /\ ~rcvPending
          /\ peer \in {"fin", "rst"}
          /\ rcvPending' = rcvPending
          /\ Commit(HandleClose(Conn), "handleReadEof")
       \/ /\ ~rcvPending
          /\ peer = "rst"
          /\ rcvPending' = rcvPending
          /\ Commit(Conn, "handleError")
    /\ UNCHANGED << peer, nextByte, subReactor, delayTimer >>

\* TcpConnection::handleWrite(): the channel reports the socket writable
HandleWriteEvent ==
    /\ writing
    /\ \E n \in IF sockWrShut \/ peer = "rst" THEN {-1}
                ELSE 0..Len(outputBuffer_) :
          Commit(HandleWrite(Conn, n), "handleWrite")
    /\ UNCHANGED connEnv

\* EventLoop::doPendingFunctors() of the connection's loop, one functor
DoPendingFunctors ==
    /\ pendingFunctors_ # << >>
    /\ LET fn == Head(pendingFunctors_)
           c  == [Conn EXCEPT !.pend = Tail(@)]
       IN  CASE fn.f \notin SharedHolders /\ ~Alive ->
                    \* a raw this of a destructed connection: undefined
                    \* behaviour, the connection is not tracked further
                    Commit(c, "useAfterFree")
             [] fn.f = "connectEstablished" ->
                    Commit(ConnectEstablished(c), "connectEstablished")
             [] fn.f = "connectDestroyed" ->
                    Commit(ConnectDestroyed(c), "connectDestroyed")
             [] fn.f = "forceCloseInLoop" ->
                    Commit(ForceCloseInLoop(c), "forceCloseInLoop")
             [] fn.f = "sendInLoop" /\ Alive ->
                    \E res \in WriteResults(c, Len(fn.data)) :
                        Commit(SendInLoop(c, fn.data, res), "sendInLoop")
             [] fn.f = "shutdownInLoop" /\ Alive ->
                    Commit(ShutdownInLoop(c), "shutdownInLoop")
    /\ UNCHANGED connEnv

\* EventLoop::doPendingFunctors() of the server's main loop
MainLoopRun ==
    /\ mainPending # << >>
    /\ Commit(RemoveConnectionInLoop([Conn EXCEPT !.mpend = Tail(@)]),
              "removeConnectionInLoop")
    /\ UNCHANGED connEnv

\* TcpServer::~TcpServer() for this connection
ServerDestroy ==
    /\ connections_
    /\ state_ # "kConnecting"
    /\ Commit([Conn EXCEPT !.inMap = FALSE,
                           !.pend = Append(@, Functor("connectDestroyed", << >>))],
              "serverDtor")
    /\ UNCHANGED connEnv

\* the peer sends bytes, closes its end (FIN), or resets the connection
PeerAct ==
    /\ peer # "rst"
    /\ \/ /\ peer = "open" /\ ~rcvPending
          /\ rcvPending' = TRUE /\ peer' = peer
       \/ /\ peer = "open"
          /\ peer' = "fin" /\ rcvPending' = rcvPending
       \/ /\ peer' = "rst" /\ rcvPending' = FALSE
    /\ Commit(Conn, "peer")
    /\ UNCHANGED << nextByte, subReactor, delayTimer >>

NextConn == \/ Send \/ Shutdown \/ ForceClose \/ ForceCloseWithDelay
            \/ DelayTimerFires \/ HandleRead \/ HandleWriteEvent
            \/ DoPendingFunctors \/ MainLoopRun \/ ServerDestroy \/ PeerAct

(***************************************************************************)
(*                  LengthHeaderCodec and GatewayServer                    *)
(*                                                                         *)
(* Bytes are 0..255.  A frame on the wire is                               *)
(*   total length (4 bytes, big-endian) | type (2) | flags (2) | payload.  *)
(* The payload stands for a serialized protobuf message: its first byte    *)
(* names the vehicle, the second byte of a telemetry payload is the        *)
(* battery level.  The clock counts ticks of 1/TicksPerMs millisecond.     *)
(***************************************************************************)
\* bounds of the gateway model
MaxFrames == 2
MaxGwNow == 5
MaxTelemetry == 4
SessionTimeoutMs == 1

TicksPerMs == 2

kHeaderLen == 8

kMinMessageLen == kHeaderLen + 1

kMaxMessageLen == 10 * 1024 * 1024

kLowBatteryThreshold == 20

MSG_AGV_TELEMETRY == 4097

MSG_HEARTBEAT == 12290

Conns == {1, 2}

AgvIds == {1, 2}

NoConn == 0

NoSession == [state |-> "none", last |-> 0, battery |-> 0]

\* Buffer::appendInt32 / appendInt16: network byte order
Int32Bytes(x) == << x \div 16777216, (x \div 65536) % 256, (x \div 256) % 256,
                    x % 256 >>

Int16Bytes(x) == << x \div 256, x % 256 >>

\* Buffer::peekInt32: the first four bytes as a signed big-endian int32_t
PeekInt32(buf) ==
    (IF buf[1] >= 128 THEN buf[1] - 256 ELSE buf[1]) * 16777216
        + buf[2] * 65536 + buf[3] * 256 + buf[4]

\* uint16_t from two bytes at offset i
PeekUint16(buf, i) == buf[i] * 256 + buf[i + 1]

\* totalLen < kMinMessageLen || totalLen > kMaxMessageLen on the uint32_t
\* cast of x: a negative int32_t becomes a value of at least 2^31
TotalLenOutOfRange(x) ==
    x < 0 \/ x < kMinMessageLen \/ x > kMaxMessageLen

\* LengthHeaderCodec::hasCompleteMessage
HasCompleteMessageHeaderOnlyMut(buf) ==
    /\ Len(buf) >= kHeaderLen
    /\ ~TotalLenOutOfRange(PeekInt32(buf))

HasCompleteMessage(buf) ==
    /\ Len(buf) >= kHeaderLen
    /\ ~TotalLenOutOfRange(PeekInt32(buf))
    /\ Len(buf) >= PeekInt32(buf)

\* LengthHeaderCodec::decode: the frame at the front and what is left
Decode(buf) ==
    IF ~HasCompleteMessage(buf)
    THEN [ok |-> FALSE, type |-> 0, flags |-> 0, payload |-> << >>,
          rest |-> buf]
    ELSE LET totalLen == PeekInt32(buf)
         IN  [ok |-> TRUE,
              type |-> PeekUint16(buf, 5),
              flags |-> PeekUint16(buf, 7),
              payload |-> SubSeq(buf, kHeaderLen + 1, totalLen),
              rest |-> SeqDrop(buf, totalLen)]

\* LengthHeaderCodec::encode with flags 0, as the vehicle side calls it
Encode(f) ==
    Int32Bytes(kHeaderLen + Len(f.payload)) \o Int16Bytes(f.type)
        \o Int16Bytes(0) \o f.payload

RECURSIVE EncodeAll(_)
EncodeAll(fs) ==
    IF fs = << >> THEN << >> ELSE Encode(Head(fs)) \o EncodeAll(Tail(fs))

\* the frames a vehicle sends: a heartbeat of either vehicle and a telemetry
\* message of vehicle 1 with a low battery level
FrameCatalogue ==
    { [type |-> MSG_HEARTBEAT, payload |-> << a >>] : a \in AgvIds }
    \cup { [type |-> MSG_AGV_TELEMETRY, payload |-> << 1, 10 >>] }

\* headers whose total length is 8, 10 MiB + 1 and 0xFFFFFFFF
InvalidHeaders ==
    { << 0, 0, 0, 8, 48, 2, 0, 0 >>,
      << 0, 160, 0, 1, 48, 2, 0, 0 >>,
      << 255, 255, 255, 255, 48, 2, 0, 0 >> }

\* proto::AgvTelemetry::ParseFromArray
ParseAgvTelemetry(payload) ==
    IF Len(payload) = 2 /\ payload[1] \in AgvIds
    THEN [ok |-> TRUE, agv_id |-> payload[1], battery |-> payload[2]]
    ELSE [ok |-> FALSE, agv_id |-> 0, battery |-> 0]

\* proto::Heartbeat::ParseFromArray
ParseHeartbeat(payload) ==
    IF Len(payload) = 1 /\ payload[1] \in AgvIds
    THEN [ok |-> TRUE, agv_id |-> payload[1]]
    ELSE [ok |-> FALSE, agv_id |-> 0]

\* the state the gateway's handlers read and write
Gw == [sessions |-> sessions_, conns |-> gwConnections_,
       charge |-> chargeSent, shut |-> connShutdown,
       inbuf |-> inputBuffer_, disp |-> dispatched,
       run |-> lowRun, eps |-> episodes]

\* GatewayServer::registerSession: a new AgvSession (full battery, ONLINE,
\* active now) and its connection
RegisterSession(g, agv_id, c, now) ==
    [g EXCEPT !.sessions[agv_id] = [state |-> "ONLINE", last |-> now,
                                    battery |-> 100],
              !.conns[agv_id] = c]

\* GatewayServer::checkLowBatteryAndCharge
CheckLowBatteryAndCharge(g, agv_id) ==
    IF /\ g.sessions[agv_id].battery < kLowBatteryThreshold
       /\ g.sessions[agv_id].state # "CHARGING"
    THEN [g EXCEPT !.charge = @ \cup {agv_id},
                   !.run[agv_id].cmds = @ + 1,
                   !.sessions[agv_id].state = "CHARGING"]
    ELSE g

\* the runs of consecutive Telemetry messages of a vehicle that report a
\* battery level below the threshold, as the messages are handled: a low
\* level opens a run or continues it, any other level closes the open run
\* and records how many charge commands were sent during it
TrackLowRun(g, msg) ==
    IF msg.battery < kLowBatteryThreshold
    THEN IF g.run[msg.agv_id].open THEN g
         ELSE [g EXCEPT !.run[msg.agv_id] = [open |-> TRUE, cmds |-> 0]]
    ELSE IF g.run[msg.agv_id].open
         THEN [g EXCEPT !.run[msg.agv_id] = [open |-> FALSE, cmds |-> 0],
                        !.eps = @ \cup {<< msg.agv_id, g.run[msg.agv_id].cmds >>}]
         ELSE g

\* GatewayServer::handleTelemetry
HandleTelemetry(g, c, msg, now) ==
    LET g0 == TrackLowRun(g, msg)
        g1 == IF g0.sessions[msg.agv_id] = NoSession
              THEN RegisterSession(g0, msg.agv_id, c, now) ELSE g0
        g2 == [g1 EXCEPT !.sessions[msg.agv_id].last = now,
                         !.sessions[msg.agv_id].battery = msg.battery]
    IN  CheckLowBatteryAndCharge(g2, msg.agv_id)

\* GatewayServer::handleHeartbeat
HandleHeartbeat(g, c, msg, now) ==
    LET g1 == IF g.sessions[msg.agv_id] = NoSession
              THEN RegisterSession(g, msg.agv_id, c, now) ELSE g
    IN  [g1 EXCEPT !.sessions[msg.agv_id].last = now]

\* GatewayServer::handleProtobufMessage
HandleProtobufMessage(g, c, type, payload, now) ==
    CASE type = MSG_AGV_TELEMETRY ->
            LET msg == ParseAgvTelemetry(payload)
            IN  IF msg.ok THEN HandleTelemetry(g, c, msg, now) ELSE g
      [] type = MSG_HEARTBEAT ->
            LET msg == ParseHeartbeat(payload)
            IN  IF msg.ok THEN HandleHeartbeat(g, c, msg, now) ELSE g
      [] OTHER -> g

\* GatewayServer::onMessage: the loop over the complete frames at the front
\* of the connection's input buffer
RECURSIVE OnMessage(_, _, _)
OnMessageOnceMut(g, c, now) ==
    IF HasCompleteMessage(g.inbuf[c])
    THEN LET d == Decode(g.inbuf[c])
             g1 == [g EXCEPT
                      !.inbuf[c] = d.rest,
                      !.disp[c] = Append(@, [type |-> d.type,
                                             payload |-> d.payload])]
         IN  HandleProtobufMessage(g1, c, d.type, d.payload, now)
    ELSE g

OnMessage(g, c, now) ==
    IF HasCompleteMessage(g.inbuf[c])
    THEN LET d == Decode(g.inbuf[c])
         IN  IF ~d.ok
             THEN [g EXCEPT !.shut[c] = TRUE]
             ELSE LET g1 == [g EXCEPT
                               !.inbuf[c] = d.rest,
                               !.disp[c] = Append(@, [type |-> d.type,
                                                      payload |-> d.payload])]
                  IN  OnMessage(HandleProtobufMessage(g1, c, d.type,
                                                      d.payload, now),
                                c, now)
    ELSE g

\* GatewayServer::onConnection on a closed connection: every agv_id whose
\* connection is this one loses its session
OnConnectionFirstOnlyMut(g, c) ==
    LET ids == {id \in AgvIds : g.conns[id] = c}
        first == CHOOSE id \in ids : \A o \in ids : id <= o
    IN  IF ids = {} THEN g
        ELSE [g EXCEPT !.sessions[first] = NoSession,
                       !.conns[first] = NoConn]

OnConnection(g, c) ==
    [g EXCEPT
        !.sessions = [id \in AgvIds |->
                        IF g.conns[id] = c THEN NoSession ELSE g.sessions[id]],
        !.conns = [id \in AgvIds |->
                        IF g.conns[id] = c THEN NoConn ELSE g.conns[id]]]

\* static_cast<int64_t>(elapsed_sec * 1000) for an elapsed time of d ticks:
\* the product truncated toward zero; where the exact product is a whole
\* number the double product may lie just below it
ElapsedMs(d) ==
    IF d % TicksPerMs = 0 /\ d > 0
    THEN {d \div TicksPerMs, d \div TicksPerMs - 1}
    ELSE {d \div TicksPerMs}

\* the body of the loop of GatewayServer::onWatchdogTimer for one session
WatchdogCheckAnyStateMut(session, elapsed_ms) ==
    IF elapsed_ms > SessionTimeoutMs
    THEN [session EXCEPT !.state = "OFFLINE"]
    ELSE session

WatchdogCheckEraseMut(session, elapsed_ms) ==
    IF elapsed_ms > SessionTimeoutMs /\ session.state = "ONLINE"
    THEN NoSession
    ELSE session

WatchdogCheck(session, elapsed_ms) ==
    IF elapsed_ms > SessionTimeoutMs /\ session.state = "ONLINE"
    THEN [session EXCEPT !.state = "OFFLINE"]
    ELSE session

CommitGw(g, op) ==
    /\ sessions_' = g.sessions
    /\ gwConnections_' = g.conns
    /\ chargeSent' = g.charge
    /\ connShutdown' = g.shut
    /\ inputBuffer_' = g.inbuf
    /\ dispatched' = g.disp
    /\ lowRun' = g.run
    /\ episodes' = g.eps
    /\ gwOp' = op
    /\ UNCHANGED gwOthers

InitGw ==
    /\ gwNow = 0
    /\ connUp = [c \in Conns |-> TRUE]
    /\ connShutdown = [c \in Conns |-> FALSE]
    /\ inputBuffer_ = [c \in Conns |-> << >>]
    /\ inflight = [c \in Conns |-> << >>]
    /\ sentFrames = [c \in Conns |-> << >>]
    /\ dispatched = [c \in Conns |-> << >>]
    /\ junk = [c \in Conns |-> FALSE]
    /\ sessions_ = [id \in AgvIds |-> NoSession]
    /\ gwConnections_ = [id \in AgvIds |-> NoConn]
    /\ chargeSent = {}
    /\ gwOp = [op |-> "start", conn |-> NoConn, n |-> 0]
    /\ segmenting = FALSE
    /\ lowRun = [id \in AgvIds |-> [open |-> FALSE, cmds |-> 0]]
    /\ episodes = {}

\* the number of frames the vehicles have sent
RECURSIVE FramesSent(_)
FramesSent(C) ==
    IF C = {} THEN 0
    ELSE LET c == CHOOSE x \in C : TRUE
         IN  Len(sentFrames[c]) + FramesSent(C \ {c})

\* a vehicle sends one more frame on its connection
PeerSend ==
    /\ \E c \in Conns, f \in FrameCatalogue :
        /\ connUp[c]
        /\ ~junk[c]
        /\ FramesSent(Conns) < MaxFrames
        /\ inflight' = [inflight EXCEPT ![c] = @ \o Encode(f)]
        /\ sentFrames' = [sentFrames EXCEPT ![c] = Append(@, f)]
        /\ CommitGw(Gw, [op |-> "peerSend", conn |-> c, n |-> 0])
    /\ UNCHANGED << gwNow, connUp, junk, segmenting >>

\* vehicle 1 reports its battery level on its connection: low, normal, or a
\* value that is no percentage
PeerSendTelemetry ==
    /\ \E c \in Conns, b \in {10, 50, 200} :
        LET f == [type |-> MSG_AGV_TELEMETRY, payload |-> << 1, b >>]
        IN  /\ connUp[c]
            /\ ~junk[c]
            /\ Len(sentFrames[c]) < MaxTelemetry
            /\ inflight' = [inflight EXCEPT ![c] = @ \o Encode(f)]
            /\ sentFrames' = [sentFrames EXCEPT ![c] = Append(@, f)]
            /\ CommitGw(Gw, [op |-> "peerSend", conn |-> c, n |-> 0])
    /\ UNCHANGED << gwNow, connUp, junk, segmenting >>

\* a peer sends a header whose total length is out of range
PeerSendInvalid ==
    /\ \E c \in Conns, h \in InvalidHeaders :
        /\ connUp[c]
        /\ ~junk[c]
        /\ inflight' = [inflight EXCEPT ![c] = @ \o h]
        /\ junk' = [junk EXCEPT ![c] = TRUE]
        /\ CommitGw(Gw, [op |-> "peerSendInvalid", conn |-> c, n |-> 0])
    /\ UNCHANGED << gwNow, connUp, sentFrames, segmenting >>

\* TcpConnection::handleRead with n > 0: the bytes that have arrived are
\* appended to the input buffer and GatewayServer::onMessage runs
Deliver ==
    /\ \E c \in Conns :
        /\ connUp[c]
        /\ inflight[c] # << >>
        /\ \E k \in IF segmenting THEN 1..Len(inflight[c])
                    ELSE {Len(inflight[c])} :
            /\ inflight' = [inflight EXCEPT ![c] = SeqDrop(@, k)]
            /\ CommitGw(OnMessage([Gw EXCEPT !.inbuf[c] =
                                      @ \o SeqTake(inflight[c], k)],
                                  c, gwNow),
                        [op |-> "onMessage", conn |-> c, n |-> 0])
    /\ UNCHANGED << gwNow, connUp, sentFrames, junk, segmenting >>

\* the connection goes down: connectionCallback_ with connected() false
ConnDown ==
    /\ \E c \in Conns :
        /\ connUp[c]
        /\ connUp' = [connUp EXCEPT ![c] = FALSE]
        /\ inflight' = [inflight EXCEPT ![c] = << >>]
        /\ CommitGw([OnConnection(Gw, c) EXCEPT !.inbuf[c] = << >>],
                    [op |-> "onConnection", conn |-> c,
                     n |-> Cardinality({id \in AgvIds : gwConnections_[id] = c})])
    /\ UNCHANGED << gwNow, sentFrames, junk, segmenting >>

\* GatewayServer::onWatchdogTimer
OnWatchdogTimer ==
    /\ \E e \in [AgvIds -> 0..(MaxGwNow \div TicksPerMs)] :
        /\ \A id \in AgvIds : e[id] \in ElapsedMs(gwNow - sessions_[id].last)
        /\ CommitGw([Gw EXCEPT !.sessions =
                        [id \in AgvIds |->
                            IF sessions_[id] = NoSession THEN NoSession
                            ELSE WatchdogCheck(sessions_[id], e[id])]],
                    [op |-> "onWatchdogTimer", conn |-> NoConn, n |-> 0])
    /\ UNCHANGED << gwNow, connUp, inflight, sentFrames, junk, segmenting >>

\* the clock advances
TickGw ==
    /\ gwNow < MaxGwNow
    /\ gwNow' = gwNow + 1
    /\ CommitGw(Gw, [op |-> "tick", conn |-> NoConn, n |-> 0])
    /\ UNCHANGED << connUp, inflight, sentFrames, junk, segmenting >>

NextGw == PeerSend \/ Deliver \/ ConnDown \/ OnWatchdogTimer \/ TickGw

NextFraming == PeerSend \/ PeerSendInvalid \/ Deliver \/ ConnDown

NextCharge == PeerSendTelemetry \/ Deliver \/ ConnDown

(***************************************************************************)
(*               ThreadPool and the NavigationTask hand-off                *)
(*                                                                         *)
(* The I/O thread packages a NavigationTask as a WorkerTask with a weak    *)
(* reference to its connection and gives it to the ThreadPool; a worker    *)
(* takes it, performs the blocking store and marshals the response back to *)
(* the connection's loop.  Tasks are numbered in the order they arrive.    *)
(***************************************************************************)
\* bounds of the worker model
MaxTasks == 3
MaxThreads == 2

Tasks == 1..MaxTasks

Workers == 1..MaxThreads

NoTask == 0

\* the state the hand-off reads and writes
Wk == [queue |-> queue_, task |-> workerTask, stage |-> workerStage,
       pend |-> wkPending, ts |-> taskState, resp |-> wkResponses]

\* the connection object exists: it is connected, or a worker or a queued
\* functor holds a TcpConnectionPtr to it
ConnAlive(k, up) ==
    \/ up
    \/ \E w \in Workers : k.stage[w] = "storing"
    \/ k.pend # << >>

\* TcpConnection::send of the CommonResponse of task t on the loop thread
SendResponse(k, t, up) ==
    IF up
    THEN [k EXCEPT !.resp[t] = @ + 1, !.ts[t] = "responded"]
    ELSE [k EXCEPT !.ts[t] = "dropped"]

\* GatewayServer::processWorkerTask run by the caller of ThreadPool::run when
\* the pool has no thread: check, store, runInLoop on the loop thread itself
ProcessInline(k, t, up) ==
    IF ConnAlive(k, up) THEN SendResponse(k, t, up)
    ELSE [k EXCEPT !.ts[t] = "cancelled"]

\* ThreadPool::run
PoolRunDropMut(k, t, up, threads) ==
    IF threads = 0
    THEN [k EXCEPT !.ts[t] = "cancelled"]
    ELSE [k EXCEPT !.queue = Append(@, t), !.ts[t] = "queued"]

PoolRun(k, t, up, threads) ==
    IF threads = 0
    THEN ProcessInline(k, t, up)
    ELSE [k EXCEPT !.queue = Append(@, t), !.ts[t] = "queued"]

\* ThreadPool::take by worker w
TakeLastMut(k, w) ==
    [k EXCEPT !.task[w] = k.queue[Len(k.queue)],
              !.stage[w] = "taken",
              !.queue = << >>]

Take(k, w) ==
    [k EXCEPT !.task[w] = Head(k.queue),
              !.stage[w] = "taken",
              !.queue = Tail(@)]

CommitWk(k) ==
    /\ queue_' = k.queue
    /\ workerTask' = k.task
    /\ workerStage' = k.stage
    /\ wkPending' = k.pend
    /\ taskState' = k.ts
    /\ wkResponses' = k.resp
    /\ UNCHANGED wkOthers

InitWk ==
    /\ numThreads = 0
    /\ queue_ = << >>
    /\ workerTask = [w \in Workers |-> NoTask]
    /\ workerStage = [w \in Workers |-> "idle"]
    /\ wkConnUp = TRUE
    /\ wkPending = << >>
    /\ taskState = [t \in Tasks |-> "none"]
    /\ wkResponses = [t \in Tasks |-> 0]
    /\ nextTask = 1

\* GatewayServer::handleNavigationTask on the I/O thread
HandleNavigationTask ==
    /\ wkConnUp
    /\ nextTask <= MaxTasks
    /\ CommitWk(PoolRun(Wk, nextTask, wkConnUp, numThreads))
    /\ nextTask' = nextTask + 1
    /\ UNCHANGED << numThreads, wkConnUp >>

\* ThreadPool::runInThread: an idle worker takes the task at the front
WorkerTake ==
    /\ \E w \in 1..numThreads :
        /\ workerStage[w] = "idle"
        /\ queue_ # << >>
        /\ CommitWk(Take(Wk, w))
    /\ UNCHANGED << numThreads, wkConnUp, nextTask >>

\* GatewayServer::processWorkerTask, step 1: task.getConnection()
WorkerBegin ==
    /\ \E w \in 1..numThreads :
        /\ workerStage[w] = "taken"
        /\ IF ConnAlive(Wk, wkConnUp)
           THEN CommitWk([Wk EXCEPT !.stage[w] = "storing"])
           ELSE CommitWk([Wk EXCEPT !.stage[w] = "idle",
                                    !.task[w] = NoTask,
                                    !.ts[workerTask[w]] = "cancelled"])
    /\ UNCHANGED << numThreads, wkConnUp, nextTask >>

\* GatewayServer::processWorkerTask, steps 2 and 3: the store is done and
\* the response is queued to the connection's loop
WorkerFinish ==
    /\ \E w \in 1..numThreads :
        /\ workerStage[w] = "storing"
        /\ CommitWk([Wk EXCEPT !.stage[w] = "idle",
                               !.task[w] = NoTask,
                               !.pend = Append(@, workerTask[w]),
                               !.ts[workerTask[w]] = "handed"])
    /\ UNCHANGED << numThreads, wkConnUp, nextTask >>

\* the connection's loop runs the functor queued by the worker
IoRunResponse ==
    /\ wkPending # << >>
    /\ CommitWk(SendResponse([Wk EXCEPT !.pend = Tail(@)], Head(wkPending),
                             wkConnUp))
    /\ UNCHANGED << numThreads, wkConnUp, nextTask >>

\* the connection closes
WkConnClose ==
    /\ wkConnUp
    /\ wkConnUp' = FALSE
    /\ CommitWk(Wk)
    /\ UNCHANGED << numThreads, nextTask >>

NextWk == \/ HandleNavigationTask \/ WorkerTake \/ WorkerBegin
          \/ WorkerFinish \/ IoRunResponse \/ WkConnClose

(***************************************************************************)
(*             ThreadPool: producers, workers and stop()                   *)
(*                                                                         *)
(* The pool after start(poolThreads).  Everything run(), take() and stop() *)
(* do while they hold mutex_ is one step; a wait on a condition variable   *)
(* releases the mutex and ends the step, and the thread goes on only once  *)
(* it has been woken, by a notify or spuriously.  Tasks are numbered in    *)
(* the order run() is called.                                              *)
(***************************************************************************)
\* bounds of the pool model
MaxPoolTasks == 3
MaxProducers == 2
MaxCap == 1

Producers == 1..MaxProducers

\* ThreadPool::isFull
IsFullNeverMut(q, cap) == FALSE

IsFull(q, cap) == cap > 0 /\ Len(q) >= cap

\* condition_variable::notify_all as stop() calls it: every waiter wakes
NotifyAllNoneMut(waiting) == {}

NotifyAll(waiting) == waiting

\* condition_variable::notify_one: the sets of waiters it may wake
NotifyOne(waiting) ==
    IF waiting = {} THEN {{}} ELSE {{x} : x \in waiting}

\* the workers blocked in notEmpty_.wait and not woken yet
NotEmptyWaiters ==
    {w \in 1..poolThreads :
        threadPc[w] = "waitNotEmpty" /\ w \notin notEmptyWoken}

\* the producers blocked in notFull_.wait and not woken yet
NotFullWaiters ==
    {p \in Producers : producerPc[p] = "waitNotFull" /\ p \notin notFullWoken}

\* the joins of ThreadPool::stop: every worker thread has left runInThread
JoinedNoWaitMut(pc, n) == TRUE

Joined(pc, n) == \A w \in 1..n : pc[w] = "exited"

\* the pool right after start(): nothing submitted, every worker at the top
\* of its loop
PoolStarted ==
    /\ running_ = TRUE
    /\ poolQueue = << >>
    /\ threadPc = [w \in Workers |-> "loop"]
    /\ threadTask = [w \in Workers |-> NoTask]
    /\ notEmptyWoken = {}
    /\ producerPc = [p \in Producers |-> "idle"]
    /\ producerTask = [p \in Producers |-> NoTask]
    /\ notFullWoken = {}
    /\ stopPc = "none"
    /\ submitted = 0
    /\ accepted = {}
    /\ executed = {}
    /\ acceptedAtStop = {}

InitPool ==
    /\ maxQueueSize_ = 0
    /\ poolThreads = 0
    /\ PoolStarted

\* ThreadPool::run of task t by producer p, from the lock on
RunLocked(p, t) ==
    IF IsFull(poolQueue, maxQueueSize_) /\ running_
    THEN /\ producerPc' = [producerPc EXCEPT ![p] = "waitNotFull"]
         /\ producerTask' = [producerTask EXCEPT ![p] = t]
         /\ UNCHANGED << poolQueue, notEmptyWoken, accepted >>
    ELSE IF ~running_
    THEN /\ producerPc' = [producerPc EXCEPT ![p] = "idle"]
         /\ producerTask' = [producerTask EXCEPT ![p] = NoTask]
         /\ UNCHANGED << poolQueue, notEmptyWoken, accepted >>
    ELSE /\ poolQueue' = Append(poolQueue, t)
         /\ accepted' = accepted \cup {t}
         /\ \E ws \in NotifyOne(NotEmptyWaiters) :
                notEmptyWoken' = notEmptyWoken \cup ws
         /\ producerPc' = [producerPc EXCEPT ![p] = "idle"]
         /\ producerTask' = [producerTask EXCEPT ![p] = NoTask]

\* a producer calls ThreadPool::run; without worker threads the task runs
\* in the caller
RunCall ==
    /\ submitted < MaxPoolTasks
    /\ \E p \in Producers :
        /\ producerPc[p] = "idle"
        /\ IF poolThreads = 0
           THEN /\ executed' = executed \cup {submitted + 1}
                /\ accepted' = accepted \cup {submitted + 1}
                /\ UNCHANGED << poolQueue, notEmptyWoken, producerPc,
                                producerTask >>
           ELSE /\ RunLocked(p, submitted + 1)
                /\ UNCHANGED executed
    /\ submitted' = submitted + 1
    /\ UNCHANGED << running_, maxQueueSize_, poolThreads, threadPc,
                    threadTask, notFullWoken, stopPc, acceptedAtStop >>
    /\ UNCHANGED plOthers

\* a producer woken in notFull_.wait evaluates the loop of run() again
RunWake ==
    /\ \E p \in Producers :
        /\ producerPc[p] = "waitNotFull"
        /\ p \in notFullWoken
        /\ notFullWoken' = notFullWoken \ {p}
        /\ RunLocked(p, producerTask[p])
    /\ UNCHANGED << running_, maxQueueSize_, poolThreads, threadPc,
                    threadTask, stopPc, submitted, executed,
                    acceptedAtStop >>
    /\ UNCHANGED plOthers

\* ThreadPool::runInThread: the test of the loop, while (running_)
ThreadLoop ==
    /\ \E w \in 1..poolThreads :
        /\ threadPc[w] = "loop"
        /\ threadPc' = [threadPc EXCEPT
                            ![w] = IF running_ THEN "take" ELSE "exited"]
    /\ UNCHANGED << running_, maxQueueSize_, poolThreads, poolQueue,
                    threadTask, notEmptyWoken, producerPc, producerTask,
                    notFullWoken, stopPc, submitted, accepted, executed,
                    acceptedAtStop >>
    /\ UNCHANGED plOthers

\* ThreadPool::take by worker w, from the lock on
TakeLockedNoPopMut(w) ==
    IF poolQueue = << >> /\ running_
    THEN /\ threadPc' = [threadPc EXCEPT ![w] = "waitNotEmpty"]
         /\ UNCHANGED << poolQueue, threadTask, notFullWoken >>
    ELSE IF poolQueue # << >>
    THEN /\ threadTask' = [threadTask EXCEPT ![w] = Head(poolQueue)]
         /\ poolQueue' = poolQueue
         /\ threadPc' = [threadPc EXCEPT ![w] = "run"]
         /\ IF maxQueueSize_ > 0
            THEN \E ps \in NotifyOne(NotFullWaiters) :
                    notFullWoken' = notFullWoken \cup ps
            ELSE UNCHANGED notFullWoken
    ELSE /\ threadPc' = [threadPc EXCEPT ![w] = "loop"]
         /\ UNCHANGED << poolQueue, threadTask, notFullWoken >>

TakeLocked(w) ==
    IF poolQueue = << >> /\ running_
    THEN /\ threadPc' = [threadPc EXCEPT ![w] = "waitNotEmpty"]
         /\ UNCHANGED << poolQueue, threadTask, notFullWoken >>
    ELSE IF poolQueue # << >>
    THEN /\ threadTask' = [threadTask EXCEPT ![w] = Head(poolQueue)]
         /\ poolQueue' = Tail(poolQueue)
         /\ threadPc' = [threadPc EXCEPT ![w] = "run"]
         /\ IF maxQueueSize_ > 0
            THEN \E ps \in NotifyOne(NotFullWaiters) :
                    notFullWoken' = notFullWoken \cup ps
            ELSE UNCHANGED notFullWoken
    ELSE /\ threadPc' = [threadPc EXCEPT ![w] = "loop"]
         /\ UNCHANGED << poolQueue, threadTask, notFullWoken >>

\* a worker calls take()
ThreadTake ==
    /\ \E w \in 1..poolThreads :
        /\ threadPc[w] = "take"
        /\ TakeLocked(w)
    /\ UNCHANGED << running_, maxQueueSize_, poolThreads, notEmptyWoken,
                    producerPc, producerTask, stopPc, submitted, accepted,
                    executed, acceptedAtStop >>
    /\ UNCHANGED plOthers

\* a worker woken in notEmpty_.wait evaluates the loop of take() again
ThreadWake ==
    /\ \E w \in 1..poolThreads :
        /\ threadPc[w] = "waitNotEmpty"
        /\ w \in notEmptyWoken
        /\ notEmptyWoken' = notEmptyWoken \ {w}
        /\ TakeLocked(w)
    /\ UNCHANGED << running_, maxQueueSize_, poolThreads, producerPc,
                    producerTask, stopPc, submitted, accepted, executed,
                    acceptedAtStop >>
    /\ UNCHANGED plOthers

\* ThreadPool::runInThread: the task a worker took returns
TaskDone ==
    /\ \E w \in 1..poolThreads :
        /\ threadPc[w] = "run"
        /\ executed' = executed \cup {threadTask[w]}
        /\ threadTask' = [threadTask EXCEPT ![w] = NoTask]
        /\ threadPc' = [threadPc EXCEPT ![w] = "loop"]
    /\ UNCHANGED << running_, maxQueueSize_, poolThreads, poolQueue,
                    notEmptyWoken, producerPc, producerTask, notFullWoken,
                    stopPc, submitted, accepted, acceptedAtStop >>
    /\ UNCHANGED plOthers

\* a wait on a condition variable may return without a notify
SpuriousWakeup ==
    /\ \/ /\ \E w \in NotEmptyWaiters :
                notEmptyWoken' = notEmptyWoken \cup {w}
          /\ UNCHANGED notFullWoken
       \/ /\ \E p \in NotFullWaiters :
                notFullWoken' = notFullWoken \cup {p}
          /\ UNCHANGED notEmptyWoken
    /\ UNCHANGED << running_, maxQueueSize_, poolThreads, poolQueue,
                    threadPc, threadTask, producerPc, producerTask, stopPc,
                    submitted, accepted, executed, acceptedAtStop >>
    /\ UNCHANGED plOthers

\* ThreadPool::stop, the locked block: running_ = false and both notify_all
Stop ==
    /\ stopPc = "none"
    /\ running_' = FALSE
    /\ notEmptyWoken' = notEmptyWoken \cup NotifyAll(NotEmptyWaiters)
    /\ notFullWoken' = notFullWoken \cup NotifyAll(NotFullWaiters)
    /\ stopPc' = "joining"
    /\ acceptedAtStop' = accepted
    /\ UNCHANGED << maxQueueSize_, poolThreads, poolQueue, threadPc,
                    threadTask, producerPc, producerTask, submitted,
                    accepted, executed >>
    /\ UNCHANGED plOthers

\* ThreadPool::stop, the joins: it returns once every worker has exited
StopReturn ==
    /\ stopPc = "joining"
    /\ Joined(threadPc, poolThreads)
    /\ stopPc' = "returned"
    /\ UNCHANGED << running_, maxQueueSize_, poolThreads, poolQueue,
                    threadPc, threadTask, notEmptyWoken, producerPc,
                    producerTask, notFullWoken, submitted, accepted,
                    executed, acceptedAtStop >>
    /\ UNCHANGED plOthers

NextPool == \/ RunCall \/ RunWake \/ ThreadLoop \/ ThreadTake \/ ThreadWake
            \/ TaskDone \/ SpuriousWakeup \/ Stop \/ StopReturn

(***************************************************************************)
(*       SessionManager, ConcurrentMap and the lifetime of WorkerTasks     *)
(*                                                                         *)
(* Sessions and connections are objects kept alive by the shared_ptr that  *)
(* refer to them: an object is destroyed with its last owner.  I/O thread  *)
(* c serves connection c; one worker thread takes the WorkerTasks.  Every  *)
(* acquisition of the map's lock is one step, so registerSession, which    *)
(* looks up and then updates, takes two.                                   *)
(***************************************************************************)
\* bounds of the session model
MaxSessObjs == 3
MaxSmCalls == 3

SessObjs == 1..MaxSessObjs

IoThreads == Conns

NoObj == 0

NoHandle == [obj |-> NoObj, owns |-> FALSE, agv |-> 0]

NoSessObj == [agv |-> 0, conn |-> NoConn, state |-> "free"]

NoWorkerTask == [id |-> 0, conn |-> NoConn, session |-> NoObj, owns |-> FALSE,
                 agv |-> 0]

\* ConcurrentMap::find: a copy of the shared_ptr stored under k, or null
FindRawMut(m, k) ==
    IF m[k] = NoObj THEN NoHandle
    ELSE [obj |-> m[k], owns |-> FALSE, agv |-> k]

Find(m, k) ==
    IF m[k] = NoObj THEN NoHandle
    ELSE [obj |-> m[k], owns |-> TRUE, agv |-> k]

\* WorkerTask::WorkerTask(conn_ptr, sess_ptr, msg_ptr, type): the connection
\* is kept as a weak_ptr, the session as a shared_ptr
WorkerTaskWeakSessionMut(n, c, h) ==
    [id |-> n, conn |-> c, session |-> h.obj, owns |-> FALSE, agv |-> h.agv]

WorkerTask(n, c, h) ==
    [id |-> n, conn |-> c, session |-> h.obj, owns |-> TRUE, agv |-> h.agv]

\* WorkerTask::getConnection: conn.lock() gives the connection while the
\* object exists and null after it was destroyed
GetConnectionUncheckedMut(status) == TRUE

GetConnection(status) == status # "destroyed"

\* the shared_ptr reference counts: a session is destroyed when neither the
\* map nor a handle nor a WorkerTask owns it, a closed connection when no
\* worker and no queued functor owns it
Reclaim(m, so, tc, io, q, wk, pf) ==
    LET sHeld(o) ==
            \/ \E id \in AgvIds : m[id] = o
            \/ \E t \in IoThreads : io[t].h.obj = o /\ io[t].h.owns
            \/ \E i \in 1..Len(q) : q[i].session = o /\ q[i].owns
            \/ wk.pc # "idle" /\ wk.task.session = o /\ wk.task.owns
        cHeld(c) ==
            \/ tc[c] = "up"
            \/ wk.pc = "storing" /\ wk.task.conn = c /\ wk.connOwns
            \/ \E i \in 1..Len(pf) : pf[i].conn = c /\ pf[i].owns
    IN  [so |-> [o \in SessObjs |->
                    IF so[o].state = "live" /\ ~sHeld(o)
                    THEN [agv |-> 0, conn |-> NoConn, state |-> "destroyed"]
                    ELSE so[o]],
         tc |-> [c \in Conns |->
                    IF tc[c] = "closed" /\ ~cHeld(c) THEN "destroyed"
                    ELSE tc[c]]]

CommitSm(m, so, tc, io, q, wk, pf) ==
    LET r == Reclaim(m, so, tc, io, q, wk, pf)
    IN  /\ map_' = m
        /\ sessObjs' = r.so
        /\ tcpObjs' = r.tc
        /\ ioThread' = io
        /\ taskQueue' = q
        /\ smWorker' = wk
        /\ loopFunctors' = pf
        /\ UNCHANGED smOthers

InitSm ==
    /\ map_ = [id \in AgvIds |-> NoObj]
    /\ sessObjs = [o \in SessObjs |-> NoSessObj]
    /\ tcpObjs = [c \in Conns |-> "up"]
    /\ ioThread = [t \in IoThreads |->
                      [pc |-> "idle", agv |-> 0, h |-> NoHandle]]
    /\ taskQueue = << >>
    /\ smWorker = [pc |-> "idle", task |-> NoWorkerTask, connOwns |-> FALSE]
    /\ loopFunctors = << >>
    /\ smResponses = [n \in 1..MaxSmCalls |-> 0]
    /\ smCancelled = {}
    /\ smFault = FALSE
    /\ smOp = [op |-> "start", agv |-> 0, conn |-> NoConn, ret |-> FALSE,
               had |-> FALSE, n |-> 0]
    /\ smCalls = 0
    /\ smCommands = [n \in 1..MaxSmCalls |-> "none"]

\* the free session objects, and the registrations that will need one
FreeObjs == {o \in SessObjs : sessObjs[o].state = "free"}

Allocating == {t \in IoThreads : ioThread[t].pc = "registering"
                                 /\ ioThread[t].h.obj = NoObj}

\* SessionManager::registerSession(agv_id, conn) on the connection's I/O
\* thread, first part: sessions_.find(agv_id)
RegisterSessionFind ==
    /\ smCalls < MaxSmCalls
    /\ \E t \in IoThreads, id \in AgvIds :
        /\ ioThread[t].pc = "idle"
        /\ tcpObjs[t] = "up"
        /\ Cardinality(FreeObjs) > Cardinality(Allocating)
        /\ CommitSm(map_, sessObjs, tcpObjs,
                    [ioThread EXCEPT ![t] = [pc |-> "registering", agv |-> id,
                                             h |-> Find(map_, id)]],
                    taskQueue, smWorker, loopFunctors)
        /\ smOp' = [op |-> "find", agv |-> 0, conn |-> NoConn, ret |-> FALSE,
                    had |-> FALSE, n |-> 0]
    /\ smCalls' = smCalls + 1
    /\ UNCHANGED smCommands
    /\ UNCHANGED << smResponses, smCancelled, smFault >>

\* SessionManager::registerSession, second part: setConnection on the session
\* found, or make_shared and sessions_.insert (insert_or_assign)
RegisterSessionUpdate ==
    /\ \E t \in IoThreads :
        /\ ioThread[t].pc = "registering"
        /\ LET id == ioThread[t].agv
               h == ioThread[t].h
               o == CHOOSE x \in FreeObjs : TRUE
               io == [ioThread EXCEPT ![t] = [pc |-> "idle", agv |-> 0,
                                              h |-> NoHandle]]
           IN  IF h.obj # NoObj
               THEN /\ CommitSm(map_,
                                [sessObjs EXCEPT ![h.obj].conn = t],
                                tcpObjs, io, taskQueue, smWorker, loopFunctors)
                    /\ smFault' = (smFault \/ sessObjs[h.obj].state # "live")
                    /\ smOp' = [op |-> "registerSession", agv |-> id,
                                conn |-> t, ret |-> FALSE,
                                had |-> map_[id] # NoObj, n |-> 0]
               ELSE /\ CommitSm([map_ EXCEPT ![id] = o],
                                [sessObjs EXCEPT ![o] = [agv |-> id, conn |-> t,
                                                         state |-> "live"]],
                                tcpObjs, io, taskQueue, smWorker, loopFunctors)
                    /\ smFault' = smFault
                    /\ smOp' = [op |-> "registerSession", agv |-> id,
                                conn |-> t, ret |-> TRUE,
                                had |-> map_[id] # NoObj, n |-> 0]
    /\ UNCHANGED smCommands
    /\ UNCHANGED << smResponses, smCancelled, smCalls >>

\* SessionManager::findSession by a thread that keeps the handle
FindSession ==
    /\ smCalls < MaxSmCalls
    /\ \E t \in IoThreads, id \in AgvIds :
        /\ ioThread[t].pc = "idle"
        /\ map_[id] # NoObj
        /\ CommitSm(map_, sessObjs, tcpObjs,
                    [ioThread EXCEPT ![t] = [pc |-> "holding", agv |-> id,
                                             h |-> Find(map_, id)]],
                    taskQueue, smWorker, loopFunctors)
        /\ smOp' = [op |-> "find", agv |-> 0, conn |-> NoConn, ret |-> FALSE,
                    had |-> FALSE, n |-> 0]
    /\ smCalls' = smCalls + 1
    /\ UNCHANGED smCommands
    /\ UNCHANGED << smResponses, smCancelled, smFault >>

\* the thread lets go of the handle it kept
ReleaseHandle ==
    /\ \E t \in IoThreads :
        /\ ioThread[t].pc = "holding"
        /\ CommitSm(map_, sessObjs, tcpObjs,
                    [ioThread EXCEPT ![t] = [pc |-> "idle", agv |-> 0,
                                             h |-> NoHandle]],
                    taskQueue, smWorker, loopFunctors)
        /\ smOp' = [op |-> "release", agv |-> 0, conn |-> NoConn, ret |-> FALSE,
                    had |-> FALSE, n |-> 0]
    /\ UNCHANGED smCommands
    /\ UNCHANGED << smResponses, smCancelled, smFault, smCalls >>

\* ConcurrentMap::erase(key), through SessionManager::removeSession, by any
\* thread
Erase ==
    /\ \E id \in AgvIds :
        /\ map_[id] # NoObj
        /\ CommitSm([map_ EXCEPT ![id] = NoObj], sessObjs, tcpObjs, ioThread,
                    taskQueue, smWorker, loopFunctors)
        /\ smOp' = [op |-> "erase", agv |-> 0, conn |-> NoConn, ret |-> FALSE,
                    had |-> FALSE, n |-> 0]
    /\ UNCHANGED smCommands
    /\ UNCHANGED << smResponses, smCancelled, smFault, smCalls >>

\* SessionManager::removeSessionByConnection(conn): eraseIf over the sessions
\* whose connection is conn
RemoveSessionByConnectionFirstOnlyMut(m, so, c) ==
    LET match == {id \in AgvIds : m[id] # NoObj /\ so[m[id]].conn = c}
        first == IF match = {} THEN {}
                 ELSE {CHOOSE id \in match : \A x \in match : id <= x}
    IN  [m |-> [id \in AgvIds |-> IF id \in first THEN NoObj ELSE m[id]],
         count |-> Cardinality(first)]

RemoveSessionByConnection(m, so, c) ==
    LET match == {id \in AgvIds : m[id] # NoObj /\ so[m[id]].conn = c}
    IN  [m |-> [id \in AgvIds |-> IF id \in match THEN NoObj ELSE m[id]],
         count |-> Cardinality(match)]

\* connection c goes down: its I/O thread runs the connection callback and
\* the server lets go of the connection
SmConnClose ==
    /\ \E c \in Conns :
        /\ tcpObjs[c] = "up"
        /\ ioThread[c].pc = "idle"
        /\ CommitSm(RemoveSessionByConnection(map_, sessObjs, c).m, sessObjs,
                    [tcpObjs EXCEPT ![c] = "closed"], ioThread, taskQueue,
                    smWorker, loopFunctors)
        /\ smOp' = [op |-> "close", agv |-> 0, conn |-> c, ret |-> FALSE,
                    had |-> FALSE,
                    n |-> RemoveSessionByConnection(map_, sessObjs, c).count]
    /\ UNCHANGED smCommands
    /\ UNCHANGED << smResponses, smCancelled, smFault, smCalls >>

\* GatewayServer::handleNavigationTask on I/O thread t: the session of the
\* vehicle is looked up and packed with the connection into a WorkerTask
SmHandleNavigationTask ==
    /\ smCalls < MaxSmCalls
    /\ \E t \in IoThreads, id \in AgvIds :
        /\ ioThread[t].pc = "idle"
        /\ tcpObjs[t] = "up"
        /\ map_[id] # NoObj
        /\ CommitSm(map_, sessObjs, tcpObjs, ioThread,
                    Append(taskQueue,
                           WorkerTask(smCalls + 1, t, Find(map_, id))),
                    smWorker, loopFunctors)
        /\ smOp' = [op |-> "navigationTask", agv |-> 0, conn |-> NoConn, ret |-> FALSE,
                    had |-> FALSE, n |-> 0]
    /\ smCalls' = smCalls + 1
    /\ UNCHANGED smCommands
    /\ UNCHANGED << smResponses, smCancelled, smFault >>

\* ThreadPool::take by the worker thread
SmWorkerTake ==
    /\ smWorker.pc = "idle"
    /\ taskQueue # << >>
    /\ CommitSm(map_, sessObjs, tcpObjs, ioThread, Tail(taskQueue),
                [pc |-> "taken", task |-> Head(taskQueue),
                 connOwns |-> FALSE],
                loopFunctors)
    /\ smOp' = [op |-> "take", agv |-> 0, conn |-> NoConn, ret |-> FALSE,
                had |-> FALSE, n |-> 0]
    /\ UNCHANGED smCommands
    /\ UNCHANGED << smResponses, smCancelled, smFault, smCalls >>

\* GatewayServer::processWorkerTask, step 1: task.getConnection(); a null
\* connection ends the task without a word
SmWorkerProcess ==
    /\ smWorker.pc = "taken"
    /\ IF GetConnection(tcpObjs[smWorker.task.conn])
       THEN /\ CommitSm(map_, sessObjs, tcpObjs, ioThread, taskQueue,
                        [smWorker EXCEPT !.pc = "storing",
                                         !.connOwns =
                                            tcpObjs[smWorker.task.conn]
                                                # "destroyed"],
                        loopFunctors)
            /\ smCancelled' = smCancelled
       ELSE /\ CommitSm(map_, sessObjs, tcpObjs, ioThread, taskQueue,
                        [pc |-> "idle", task |-> NoWorkerTask,
                         connOwns |-> FALSE],
                        loopFunctors)
            /\ smCancelled' = smCancelled \cup {smWorker.task.id}
    /\ smFault' = (smFault \/ sessObjs[smWorker.task.session].state # "live")
    /\ smOp' = [op |-> "process", agv |-> 0, conn |-> NoConn, ret |-> FALSE,
                had |-> FALSE, n |-> 0]
    /\ UNCHANGED smCommands
    /\ UNCHANGED << smResponses, smCalls >>

\* GatewayServer::processWorkerTask, steps 2 and 3: the store is done and
\* the response is handed to the connection's loop with runInLoop
SmWorkerDone ==
    /\ smWorker.pc = "storing"
    /\ CommitSm(map_, sessObjs, tcpObjs, ioThread, taskQueue,
                [pc |-> "idle", task |-> NoWorkerTask, connOwns |-> FALSE],
                Append(loopFunctors, [task |-> smWorker.task.id,
                                      conn |-> smWorker.task.conn,
                                      owns |-> smWorker.connOwns]))
    /\ smOp' = [op |-> "done", agv |-> 0, conn |-> NoConn, ret |-> FALSE,
                had |-> FALSE, n |-> 0]
    /\ UNCHANGED smCommands
    /\ UNCHANGED << smResponses, smCancelled, smFault, smCalls >>

\* the connection's loop runs the functor: TcpConnection::send of the
\* CommonResponse, which a connection that is no longer connected drops
SmLoopSend ==
    /\ loopFunctors # << >>
    /\ LET f == Head(loopFunctors)
       IN  /\ ioThread[f.conn].pc # "registering"
           /\ smResponses' = [smResponses EXCEPT ![f.task] =
                                 IF tcpObjs[f.conn] = "up" THEN @ + 1 ELSE @]
           /\ smFault' = (smFault \/ tcpObjs[f.conn] = "destroyed")
           /\ CommitSm(map_, sessObjs, tcpObjs, ioThread, taskQueue, smWorker,
                       Tail(loopFunctors))
           /\ smOp' = [op |-> "send", agv |-> 0, conn |-> NoConn, ret |-> FALSE,
                       had |-> FALSE, n |-> 0]
    /\ UNCHANGED smCommands
    /\ UNCHANGED << smCancelled, smCalls >>

\* where GatewayServer::handleAgvCommand leaves the worker queue: an
\* AgvCommand is passed on by the I/O thread and never becomes a WorkerTask
AgvCommandQueuedMut(q, n, c, h) == Append(q, WorkerTask(n, c, h))

AgvCommandQueue(q, n, c, h) == q

\* GatewayServer::handleAgvCommand on I/O thread t: the target's session is
\* looked up, its weak connection upgraded and the command forwarded on it;
\* without session or connection the sender gets an error response
HandleAgvCommand ==
    /\ smCalls < MaxSmCalls
    /\ \E t \in IoThreads, target \in AgvIds :
        /\ ioThread[t].pc = "idle"
        /\ tcpObjs[t] = "up"
        /\ LET h == Find(map_, target)
               forwarded == /\ h.obj # NoObj
                            /\ sessObjs[h.obj].conn # NoConn
                            /\ tcpObjs[sessObjs[h.obj].conn] = "up"
           IN  /\ CommitSm(map_, sessObjs, tcpObjs, ioThread,
                           AgvCommandQueue(taskQueue, smCalls + 1, t, h),
                           smWorker, loopFunctors)
               /\ smCommands' = [smCommands EXCEPT ![smCalls + 1] =
                                    IF forwarded THEN "forwarded" ELSE "error"]
               /\ smOp' = [op |-> "agvCommand", agv |-> target, conn |-> t,
                           ret |-> forwarded, had |-> h.obj # NoObj, n |-> 0]
    /\ smCalls' = smCalls + 1
    /\ UNCHANGED << smResponses, smCancelled, smFault >>

NextSm == \/ HandleAgvCommand \/ RegisterSessionFind \/ RegisterSessionUpdate \/ FindSession
          \/ ReleaseHandle \/ Erase \/ SmConnClose \/ SmHandleNavigationTask
          \/ SmWorkerTake \/ SmWorkerProcess \/ SmWorkerDone \/ SmLoopSend

(***************************************************************************)
(*                 Connector: connect, retry and backoff                   *)
(*                                                                         *)
(* One Connector on its loop.  start() and stop() set connect_ at once and *)
(* queue their InLoop halves; a retry is a timer that runs startInLoop.    *)
(* The outcome of connect(2), of SO_ERROR and of the self-connect test is  *)
(* the environment's.  A startInLoop that finds the Connector in a state   *)
(* its assert excludes aborts the program where asserts are compiled in    *)
(* and goes on where they are not.                                         *)
(***************************************************************************)
\* bounds of the connector model
MaxRetries == 8
MaxCnCalls == 3

kInitRetryDelayMs == 500

kMaxRetryDelayMs == 30 * 1000

\* std::min
Min(a, b) == IF a < b THEN a ELSE b

NoCnOp == [op |-> "none", outcome |-> "none", scheduled |-> FALSE,
           delay |-> 0, k |-> 0, callback |-> FALSE, closed |-> FALSE]

\* the Connector's members, with what the last step did
Cn == [state |-> connectorState, connect |-> connect_,
       delay |-> retryDelayMs_, timers |-> retryTimers, k |-> retryCount,
       sock |-> sockOpen, fault |-> cnFault, op |-> NoCnOp]

\* Connector::retry(sockfd)
ConnectorRetryNoCapMut(cn) ==
    LET c1 == [cn EXCEPT !.sock = FALSE, !.state = "kDisconnected",
                         !.op.closed = TRUE]
    IN  IF c1.connect
        THEN [c1 EXCEPT !.timers = @ + 1,
                        !.k = @ + 1,
                        !.op.scheduled = TRUE,
                        !.op.delay = c1.delay,
                        !.op.k = c1.k + 1,
                        !.delay = c1.delay * 2]
        ELSE c1

ConnectorRetry(cn) ==
    LET c1 == [cn EXCEPT !.sock = FALSE, !.state = "kDisconnected",
                         !.op.closed = TRUE]
    IN  IF c1.connect
        THEN [c1 EXCEPT !.timers = @ + 1,
                        !.k = @ + 1,
                        !.op.scheduled = TRUE,
                        !.op.delay = c1.delay,
                        !.op.k = c1.k + 1,
                        !.delay = Min(c1.delay * 2, kMaxRetryDelayMs)]
        ELSE c1

\* Connector::connect with the errno class of connect(2), and connecting()
ConnectorConnect(cn, outcome) ==
    LET c1 == [cn EXCEPT !.sock = TRUE, !.op.outcome = outcome]
    IN  CASE outcome = "inProgress" ->
                [c1 EXCEPT !.state = "kConnecting"]
          [] outcome = "retryable" -> ConnectorRetry(c1)
          [] OTHER -> [c1 EXCEPT !.sock = FALSE, !.op.closed = TRUE]

\* Connector::startInLoop; asserts tells whether assert() is compiled in
ConnectorStartInLoop(cn, outcome, asserts) ==
    IF cn.state # "kDisconnected" /\ asserts THEN [cn EXCEPT !.fault = TRUE]
    ELSE IF cn.connect THEN ConnectorConnect(cn, outcome)
    ELSE cn

\* Connector::stopInLoop
ConnectorStopInLoop(cn) ==
    IF cn.state = "kConnecting"
    THEN ConnectorRetry([cn EXCEPT !.state = "kDisconnected"])
    ELSE cn

\* Connector::handleWrite with what SO_ERROR and isSelfConnect report
ConnectorHandleWriteAcceptSelfMut(cn, outcome) ==
    IF cn.state # "kConnecting" THEN cn
    ELSE LET c1 == [cn EXCEPT !.op.outcome = outcome]
         IN  CASE outcome = "error" -> ConnectorRetry(c1)
               [] OTHER ->
                    IF c1.connect
                    THEN [c1 EXCEPT !.state = "kConnected",
                                    !.op.callback = TRUE]
                    ELSE [c1 EXCEPT !.state = "kConnected", !.sock = FALSE,
                                    !.op.closed = TRUE]

ConnectorHandleWrite(cn, outcome) ==
    IF cn.state # "kConnecting" THEN cn
    ELSE LET c1 == [cn EXCEPT !.op.outcome = outcome]
         IN  CASE outcome = "error" -> ConnectorRetry(c1)
               [] outcome = "selfConnect" -> ConnectorRetry(c1)
               [] OTHER ->
                    IF c1.connect
                    THEN [c1 EXCEPT !.state = "kConnected",
                                    !.op.callback = TRUE]
                    ELSE [c1 EXCEPT !.state = "kConnected", !.sock = FALSE,
                                    !.op.closed = TRUE]

\* Connector::handleError
ConnectorHandleError(cn) ==
    IF cn.state = "kConnecting" THEN ConnectorRetry(cn) ELSE cn

\* Connector::restart
ConnectorRestart(cn, outcome) ==
    ConnectorStartInLoop([cn EXCEPT !.state = "kDisconnected",
                                    !.delay = kInitRetryDelayMs,
                                    !.k = 0,
                                    !.connect = TRUE], outcome, TRUE)

CommitCn(cn, name) ==
    /\ connectorState' = cn.state
    /\ connect_' = cn.connect
    /\ retryDelayMs_' = cn.delay
    /\ retryTimers' = cn.timers
    /\ retryCount' = cn.k
    /\ sockOpen' = cn.sock
    /\ cnFault' = cn.fault
    /\ cnOp' = [cn.op EXCEPT !.op = name]
    /\ UNCHANGED cnOthers

InitCn ==
    /\ connectorState = "kDisconnected"
    /\ connect_ = FALSE
    /\ retryDelayMs_ = kInitRetryDelayMs
    /\ retryTimers = 0
    /\ retryCount = 0
    /\ startPending = 0
    /\ stopPending = 0
    /\ sockOpen = FALSE
    /\ cnFault = FALSE
    /\ cnOp = NoCnOp
    /\ cnCalls = 0

ConnectOutcomes == {"inProgress", "retryable", "fatal"}

WriteOutcomes == {"error", "selfConnect", "success"}

\* Connector::start by the user
CnStart ==
    /\ ~cnFault
    /\ cnCalls < MaxCnCalls
    /\ CommitCn([Cn EXCEPT !.connect = TRUE], "start")
    /\ startPending' = startPending + 1
    /\ cnCalls' = cnCalls + 1
    /\ UNCHANGED stopPending

\* Connector::stop by the user
CnStop ==
    /\ ~cnFault
    /\ cnCalls < MaxCnCalls
    /\ CommitCn([Cn EXCEPT !.connect = FALSE], "stop")
    /\ stopPending' = stopPending + 1
    /\ cnCalls' = cnCalls + 1
    /\ UNCHANGED startPending

\* the loop runs the startInLoop that start() handed to it
CnStartInLoop ==
    /\ ~cnFault
    /\ startPending > 0
    /\ \E outcome \in ConnectOutcomes, asserts \in BOOLEAN :
        /\ outcome = "retryable" => retryCount < MaxRetries
        /\ CommitCn(ConnectorStartInLoop(Cn, outcome, asserts),
                    "startInLoop")
    /\ startPending' = startPending - 1
    /\ UNCHANGED << stopPending, cnCalls >>

\* a retry timer expires and runs startInLoop
CnRetryTimer ==
    /\ ~cnFault
    /\ retryTimers > 0
    /\ \E outcome \in ConnectOutcomes, asserts \in BOOLEAN :
        /\ outcome = "retryable" => retryCount < MaxRetries
        /\ CommitCn(ConnectorStartInLoop([Cn EXCEPT !.timers = @ - 1],
                                         outcome, asserts), "retryTimer")
    /\ UNCHANGED << startPending, stopPending, cnCalls >>

\* the loop runs the stopInLoop that stop() queued
CnStopInLoop ==
    /\ ~cnFault
    /\ stopPending > 0
    /\ retryCount < MaxRetries
    /\ CommitCn(ConnectorStopInLoop(Cn), "stopInLoop")
    /\ stopPending' = stopPending - 1
    /\ UNCHANGED << startPending, cnCalls >>

\* the connecting socket became writable
CnHandleWrite ==
    /\ ~cnFault
    /\ connectorState = "kConnecting"
    /\ \E outcome \in WriteOutcomes :
        /\ outcome # "success" => retryCount < MaxRetries
        /\ CommitCn(ConnectorHandleWrite(Cn, outcome), "handleWrite")
    /\ UNCHANGED << startPending, stopPending, cnCalls >>

\* the connecting socket reported an error event
CnHandleError ==
    /\ ~cnFault
    /\ connectorState = "kConnecting"
    /\ retryCount < MaxRetries
    /\ CommitCn(ConnectorHandleError(Cn), "handleError")
    /\ UNCHANGED << startPending, stopPending, cnCalls >>

\* Connector::restart, called on the loop by TcpClient::removeConnection
\* when the connection the Connector handed to it has closed
CnRestart ==
    /\ ~cnFault
    /\ cnCalls < MaxCnCalls
    /\ connectorState = "kConnected"
    /\ sockOpen
    /\ \E outcome \in ConnectOutcomes :
        CommitCn(ConnectorRestart(Cn, outcome), "restart")
    /\ cnCalls' = cnCalls + 1
    /\ UNCHANGED << startPending, stopPending >>

NextCn == \/ CnStart \/ CnStop \/ CnStartInLoop \/ CnRetryTimer
          \/ CnStopInLoop \/ CnHandleWrite \/ CnHandleError \/ CnRestart

(***************************************************************************)
(*                      Buffer and LengthHeaderCodec                       *)
(*                                                                         *)
(* The backing store is the sequence buffer_; readerIndex_ and             *)
(* writerIndex_ count bytes from its start.  A copy that runs past the end *)
(* of the store is undefined: the program may die in it or carry on with   *)
(* the writer index beyond the store; nothing is modelled after it.        *)
(***************************************************************************)
\* bounds of the buffer model
MaxInitialSize == 6
MaxGrow == 4
MaxAppendLen == 2

kCheapPrepend == 8

\* Buffer::Buffer(initialSize)
NewBuffer(initialSize) ==
    [store |-> [i \in 1..(kCheapPrepend + initialSize) |-> 0],
     r |-> kCheapPrepend, w |-> kCheapPrepend, bad |-> FALSE]

\* the buffer object
Buf == [store |-> buffer_, r |-> readerIndex_, w |-> writerIndex_,
        bad |-> bufBad]

ReadableBytes(b) == b.w - b.r

WritableBytes(b) == Len(b.store) - b.w

PrependableBytes(b) == b.r

\* the bytes between the reader and the writer index
Readable(b) == [i \in 1..(b.w - b.r) |->
                    IF b.r + i <= Len(b.store) THEN b.store[b.r + i] ELSE 0]

\* Buffer::retrieveAll
BufferRetrieveAll(b) == [b EXCEPT !.r = kCheapPrepend, !.w = kCheapPrepend]

\* Buffer::retrieve
BufferRetrieve(b, len) ==
    IF len < ReadableBytes(b) THEN [b EXCEPT !.r = @ + len]
    ELSE BufferRetrieveAll(b)

\* Buffer::makeSpace
BufferMakeSpacePrependableMut(b, len) ==
    IF WritableBytes(b) + PrependableBytes(b) < len + kCheapPrepend
    THEN [b EXCEPT !.store = [i \in 1..(b.w + len) |->
                                IF i <= Len(b.store) THEN b.store[i] ELSE 0]]
    ELSE LET readable == ReadableBytes(b)
         IN  [b EXCEPT !.store = [i \in 1..Len(b.store) |->
                                    IF i > kCheapPrepend
                                       /\ i <= kCheapPrepend + readable
                                    THEN b.store[b.r + i - kCheapPrepend]
                                    ELSE b.store[i]],
                       !.r = kCheapPrepend,
                       !.w = kCheapPrepend + readable]

BufferMakeSpace(b, len) ==
    IF WritableBytes(b) + ReadableBytes(b) < len + kCheapPrepend
    THEN [b EXCEPT !.store = [i \in 1..(b.w + len) |->
                                IF i <= Len(b.store) THEN b.store[i] ELSE 0]]
    ELSE LET readable == ReadableBytes(b)
         IN  [b EXCEPT !.store = [i \in 1..Len(b.store) |->
                                    IF i > kCheapPrepend
                                       /\ i <= kCheapPrepend + readable
                                    THEN b.store[b.r + i - kCheapPrepend]
                                    ELSE b.store[i]],
                       !.r = kCheapPrepend,
                       !.w = kCheapPrepend + readable]

\* Buffer::ensureWriteableBytes
BufferEnsureWriteableBytes(b, len) ==
    IF WritableBytes(b) < len THEN BufferMakeSpace(b, len) ELSE b

\* Buffer::append(data, len): std::copy to beginWrite(), then the writer
\* index moves on; bad when the copy leaves the store
BufferAppend(b, data) ==
    LET b1 == BufferEnsureWriteableBytes(b, Len(data))
    IN  [b1 EXCEPT !.store = [i \in 1..Len(b1.store) |->
                                IF i > b1.w /\ i <= b1.w + Len(data)
                                THEN data[i - b1.w] ELSE b1.store[i]],
                   !.w = @ + Len(data),
                   !.bad = @ \/ b1.w + Len(data) > Len(b1.store)]

\* the four bytes of an int32_t in network byte order
Int32ToBytes(x) ==
    IF x >= 0 THEN Int32Bytes(x)
    ELSE LET y == -(x + 1)
         IN  << 255 - (y \div 16777216), 255 - ((y \div 65536) % 256),
                255 - ((y \div 256) % 256), 255 - (y % 256) >>

\* static_cast<int16_t> of a uint16_t and static_cast<uint16_t> of an int16_t
ToInt16(u) == IF u >= 32768 THEN u - 65536 ELSE u

ToUint16SignedMut(x) == x

ToUint16(x) == IF x < 0 THEN x + 65536 ELSE x

\* the two bytes of an int16_t in network byte order
Int16ToBytes(x) == Int16Bytes(IF x < 0 THEN x + 65536 ELSE x)

\* Buffer::peekInt16
BufferPeekInt16(b) == ToInt16(PeekUint16(Readable(b), 1))

\* Buffer::appendInt32 and Buffer::appendInt16
BufferAppendInt32(b, x) == BufferAppend(b, Int32ToBytes(x))

BufferAppendInt16(b, x) == BufferAppend(b, Int16ToBytes(x))

\* Buffer::prependInt32 and Buffer::prependInt16
BufferPrepend(b, bytes) ==
    [b EXCEPT !.r = @ - Len(bytes),
              !.store = [i \in 1..Len(b.store) |->
                            IF i > b.r - Len(bytes) /\ i <= b.r
                            THEN bytes[i - (b.r - Len(bytes))]
                            ELSE b.store[i]]]

\* Buffer::Buffer() of no initial size, where the buffer is not looked at
InitBuf ==
    /\ buffer_ = NewBuffer(0).store
    /\ readerIndex_ = kCheapPrepend
    /\ writerIndex_ = kCheapPrepend
    /\ bufBad = FALSE
    /\ bufOp = [op |-> "new"]
    /\ cdPending = << >>
    /\ cdCalls = 0

\* the buffer after an operation; crashed tells whether a copy that left the
\* store ended the program before the index moved
CommitBuf(b, crashed, op) ==
    /\ buffer_' = b.store
    /\ readerIndex_' = IF b.bad /\ crashed THEN readerIndex_ ELSE b.r
    /\ writerIndex_' = IF b.bad /\ crashed THEN writerIndex_ ELSE b.w
    /\ bufBad' = b.bad
    /\ bufOp' = op
    /\ UNCHANGED bfOthers

\* Buffer::append of len bytes
BufAppend ==
    /\ ~bufBad
    /\ \E len \in 1..MaxAppendLen, crashed \in BOOLEAN :
        /\ Len(buffer_) + len <= kCheapPrepend + MaxInitialSize + MaxGrow
        /\ CommitBuf(BufferAppend(Buf, [i \in 1..len |-> 1]), crashed,
                     [op |-> "append"])
    /\ UNCHANGED << cdPending, cdCalls >>

\* Buffer::appendInt32 and Buffer::appendInt16 of 0x01010101 and 0x0101
BufAppendInt ==
    /\ ~bufBad
    /\ \E wide \in BOOLEAN, crashed \in BOOLEAN :
        /\ Len(buffer_) + 4 <= kCheapPrepend + MaxInitialSize + MaxGrow
        /\ CommitBuf(IF wide THEN BufferAppendInt32(Buf, 16843009)
                     ELSE BufferAppendInt16(Buf, 257),
                     crashed, [op |-> "appendInt"])
    /\ UNCHANGED << cdPending, cdCalls >>

\* Buffer::retrieve and Buffer::retrieveAll
BufRetrieve ==
    /\ ~bufBad
    /\ ReadableBytes(Buf) > 0
    /\ \E len \in 1..(MaxAppendLen + 1) :
        CommitBuf(BufferRetrieve(Buf, len), FALSE, [op |-> "retrieve"])
    /\ UNCHANGED << cdPending, cdCalls >>

\* Buffer::readInt32 and Buffer::readInt16, where their precondition holds
BufReadInt ==
    /\ ~bufBad
    /\ \E n \in {2, 4} :
        /\ ReadableBytes(Buf) >= n
        /\ CommitBuf(BufferRetrieve(Buf, n), FALSE,
                     [op |-> "readInt",
                      val |-> IF n = 4 THEN PeekInt32(Readable(Buf))
                              ELSE BufferPeekInt16(Buf)])
    /\ UNCHANGED << cdPending, cdCalls >>

\* Buffer::prependInt32 and Buffer::prependInt16, where their precondition
\* holds
BufPrependInt ==
    /\ ~bufBad
    /\ \E wide \in BOOLEAN :
        /\ PrependableBytes(Buf) >= (IF wide THEN 4 ELSE 2)
        /\ CommitBuf(BufferPrepend(Buf, IF wide THEN Int32ToBytes(16843009)
                                        ELSE Int16ToBytes(257)),
                     FALSE, [op |-> "prependInt"])
    /\ UNCHANGED << cdPending, cdCalls >>

NextBuffer == BufAppend \/ BufAppendInt \/ BufRetrieve \/ BufReadInt
              \/ BufPrependInt

(***************************************************************************)
(* LengthHeaderCodec on a Buffer: frames are encoded onto it, bytes that   *)
(* arrive from the network are appended to it, frames are decoded from it. *)
(***************************************************************************)
\* bound of the codec model
MaxCodecCalls == 3

\* LengthHeaderCodec::encode
CodecEncode(b, msgType, protoData, flags) ==
    LET totalLen == kHeaderLen + Len(protoData)
    IN  IF totalLen > kMaxMessageLen THEN [ok |-> FALSE, buf |-> b]
        ELSE LET b1 == BufferEnsureWriteableBytes(b, totalLen)
                 b2 == BufferAppendInt32(b1, totalLen)
                 b3 == BufferAppendInt16(b2, ToInt16(msgType))
                 b4 == BufferAppendInt16(b3, ToInt16(flags))
             IN  [ok |-> TRUE, buf |-> BufferAppend(b4, protoData)]

\* LengthHeaderCodec::decode
CodecDecode(b) ==
    IF ~HasCompleteMessage(Readable(b))
    THEN [ok |-> FALSE, type |-> 0, flags |-> 0, payload |-> << >>,
          buf |-> b]
    ELSE LET totalLen == PeekInt32(Readable(b))
             b1 == BufferRetrieve(b, 4)
             type == ToUint16(BufferPeekInt16(b1))
             b2 == BufferRetrieve(b1, 2)
             flag == ToUint16(BufferPeekInt16(b2))
             b3 == BufferRetrieve(b2, 2)
             payloadLen == totalLen - kHeaderLen
         IN  [ok |-> TRUE, type |-> type, flags |-> flag,
              payload |-> SubSeq(Readable(b3), 1, payloadLen),
              buf |-> BufferRetrieve(b3, payloadLen)]

\* message types, flags and payloads handed to encode
CodecTypes == {MSG_AGV_TELEMETRY, 65535}

CodecFlags == {0, 65535}

CodecPayloads == {<< >>, << 7 >>, << 7, 200 >>}

\* what the network delivers: headers of total length 8, 9, 10 MiB,
\* 10 MiB + 1 and 0xFFFFFFFF, and a single byte
CodecChunks ==
    { << 0, 0, 0, 8, 48, 2, 0, 0 >>,
      << 0, 0, 0, 9, 48, 2, 0, 0 >>,
      << 0, 160, 0, 0, 48, 2, 0, 0 >>,
      << 0, 160, 0, 1, 48, 2, 0, 0 >>,
      << 255, 255, 255, 255, 48, 2, 0, 0 >>,
      << 5 >> }

\* a call of LengthHeaderCodec::encode on the buffer
CodecEncodeCall ==
    /\ ~bufBad
    /\ cdCalls < MaxCodecCalls
    /\ \E msgType \in CodecTypes, flags \in CodecFlags,
          protoData \in CodecPayloads, crashed \in BOOLEAN :
        LET res == CodecEncode(Buf, msgType, protoData, flags)
        IN  /\ CommitBuf(res.buf, crashed,
                         [op |-> "encode", ok |-> res.ok,
                          payload |-> protoData,
                          before |-> ReadableBytes(Buf),
                          after |-> ReadableBytes(res.buf)])
            /\ cdPending' = IF res.ok /\ ReadableBytes(Buf) = 0
                            THEN << [type |-> msgType, flags |-> flags,
                                     payload |-> protoData] >>
                            ELSE << >>
    /\ cdCalls' = cdCalls + 1

\* Buffer::readFd: bytes from the socket are appended
CodecReceive ==
    /\ ~bufBad
    /\ cdCalls < MaxCodecCalls
    /\ \E chunk \in CodecChunks, crashed \in BOOLEAN :
        CommitBuf(BufferAppend(Buf, chunk), crashed, [op |-> "receive"])
    /\ cdPending' = << >>
    /\ cdCalls' = cdCalls + 1

\* a call of LengthHeaderCodec::hasCompleteMessage on the buffer
CodecHasCompleteMessageCall ==
    /\ ~bufBad
    /\ cdCalls < MaxCodecCalls
    /\ CommitBuf(Buf, FALSE, [op |-> "hasCompleteMessage",
                              ret |-> HasCompleteMessage(Readable(Buf))])
    /\ cdCalls' = cdCalls + 1
    /\ UNCHANGED cdPending

\* a call of LengthHeaderCodec::decode on the buffer
CodecDecodeCall ==
    /\ ~bufBad
    /\ cdCalls < MaxCodecCalls
    /\ LET res == CodecDecode(Buf)
       IN  CommitBuf(res.buf, FALSE,
                     [op |-> "decode", ok |-> res.ok, type |-> res.type,
                      flags |-> res.flags, payload |-> res.payload,
                      before |-> ReadableBytes(Buf),
                      after |-> ReadableBytes(res.buf),
                      expect |-> cdPending])
    /\ cdPending' = << >>
    /\ cdCalls' = cdCalls + 1

\* Buffer::retrieveAll between two uses of the buffer
CodecRetrieveAll ==
    /\ ~bufBad
    /\ cdCalls < MaxCodecCalls
    /\ ReadableBytes(Buf) > 0
    /\ CommitBuf(BufferRetrieveAll(Buf), FALSE, [op |-> "retrieveAll"])
    /\ cdPending' = << >>
    /\ cdCalls' = cdCalls + 1

NextCodec == CodecEncodeCall \/ CodecReceive \/ CodecHasCompleteMessageCall
             \/ CodecDecodeCall \/ CodecRetrieveAll

(***************************************************************************)
(*                          ProtobufDispatcher                             *)
(*                                                                         *)
(* handlers_ maps a message type to the message class its handler was      *)
(* registered with.  A payload parses as a class or does not, as the       *)
(* gateway's messages do above.                                            *)
(***************************************************************************)
MessageClasses == {"AgvTelemetry", "Heartbeat"}

NoHandler == "none"

DpTypes == {MSG_AGV_TELEMETRY, MSG_HEARTBEAT, 65535}

DpPayloads == {<< >>, << 1 >>, << 1, 10 >>, << 9, 9, 9 >>}

\* MessageT::ParseFromArray for the class the handler was made with
ParseAs(cls, payload) ==
    IF cls = "AgvTelemetry" THEN ParseAgvTelemetry(payload).ok
    ELSE ParseHeartbeat(payload).ok

\* TypedHandler<MessageT>::handle of the handler registered under key
TypedHandlerHandleUncheckedMut(key, cls, payload) ==
    [ret |-> TRUE,
     invoked |-> {[key |-> key, cls |-> cls, msg |-> payload,
                   parsed |-> ParseAs(cls, payload)]}]

TypedHandlerHandle(key, cls, payload) ==
    IF ~ParseAs(cls, payload) THEN [ret |-> FALSE, invoked |-> {}]
    ELSE [ret |-> TRUE,
          invoked |-> {[key |-> key, cls |-> cls, msg |-> payload,
                        parsed |-> TRUE]}]

\* ProtobufDispatcher::dispatch
Dispatch(h, dflt, msg_type, payload) ==
    IF h[msg_type] # NoHandler
    THEN [op |-> "dispatch", type |-> msg_type, payload |-> payload,
          ret |-> TypedHandlerHandle(msg_type, h[msg_type], payload).ret,
          invoked |-> TypedHandlerHandle(msg_type, h[msg_type],
                                         payload).invoked,
          dflt |-> FALSE]
    ELSE [op |-> "dispatch", type |-> msg_type, payload |-> payload,
          ret |-> dflt, invoked |-> {}, dflt |-> dflt]

NoDispatch == [op |-> "none", type |-> 0, payload |-> << >>, ret |-> FALSE,
               invoked |-> {}, dflt |-> FALSE]

InitDp ==
    /\ handlers_ = [t \in DpTypes |-> NoHandler]
    /\ defaultCallback_ = FALSE
    /\ dpOp = NoDispatch

\* ProtobufDispatcher::registerHandler<MessageT>(msg_type, callback)
DpRegisterHandler ==
    /\ \E t \in DpTypes, cls \in MessageClasses :
        handlers_' = [handlers_ EXCEPT ![t] = cls]
    /\ dpOp' = [NoDispatch EXCEPT !.op = "registerHandler"]
    /\ UNCHANGED << defaultCallback_, dpOthers >>

\* ProtobufDispatcher::setDefaultCallback
DpSetDefaultCallback ==
    /\ defaultCallback_' = TRUE
    /\ dpOp' = [NoDispatch EXCEPT !.op = "setDefaultCallback"]
    /\ UNCHANGED << handlers_, dpOthers >>

\* a call of ProtobufDispatcher::dispatch
DpDispatch ==
    /\ \E t \in DpTypes, payload \in DpPayloads :
        dpOp' = Dispatch(handlers_, defaultCallback_, t, payload)
    /\ UNCHANGED << handlers_, defaultCallback_, dpOthers >>

NextDp == DpRegisterHandler \/ DpSetDefaultCallback \/ DpDispatch

(***************************************************************************)
(*                            LatencyMonitor                               *)
(*                                                                         *)
(* Times are microseconds; a round-trip time and the statistics, which the *)
(* code keeps in milliseconds as doubles, are kept in microseconds, so     *)
(* that -1.0 ms is -1000.                                                  *)
(***************************************************************************)
\* bounds of the latency model
MaxPings == 2
MaxLmNow == 3

LmTickUs == 500

NotFoundRtt == -1000

Seqs == 1..(MaxPings + 1)

NoProbe == [agv |-> 0, sent |-> -1]

\* RttStats{}
NoStats == [latest |-> 0, count |-> 0, total |-> 0, min |-> 1000000000,
            max |-> 0]

\* the statistics of one vehicle after a sample
UpdateStats(st, rtt) ==
    [latest |-> rtt, count |-> st.count + 1, total |-> st.total + rtt,
     min |-> IF rtt < st.min THEN rtt ELSE st.min,
     max |-> IF rtt > st.max THEN rtt ELSE st.max]

\* LatencyMonitor::processPong
LatencyProcessPongKeepMut(pend, st, seq, is_response, now) ==
    IF ~is_response THEN [pend |-> pend, st |-> st, ret |-> NotFoundRtt]
    ELSE IF pend[seq] = NoProbe
    THEN [pend |-> pend, st |-> st, ret |-> NotFoundRtt]
    ELSE [pend |-> pend,
          st |-> [st EXCEPT ![pend[seq].agv] =
                                UpdateStats(@, now - pend[seq].sent)],
          ret |-> now - pend[seq].sent]

LatencyProcessPong(pend, st, seq, is_response, now) ==
    IF ~is_response THEN [pend |-> pend, st |-> st, ret |-> NotFoundRtt]
    ELSE IF pend[seq] = NoProbe
    THEN [pend |-> pend, st |-> st, ret |-> NotFoundRtt]
    ELSE [pend |-> [pend EXCEPT ![seq] = NoProbe],
          st |-> [st EXCEPT ![pend[seq].agv] =
                                UpdateStats(@, now - pend[seq].sent)],
          ret |-> now - pend[seq].sent]

InitLm ==
    /\ next_seq_num_ = 1
    /\ pending_probes_ = [q \in Seqs |-> NoProbe]
    /\ stats_ = [id \in AgvIds |-> NoStats]
    /\ lmNow = 0
    /\ lmOp = [op |-> "new", seq |-> 0, resp |-> FALSE, ret |-> 0]

\* LatencyMonitor::createPing
LmCreatePing ==
    /\ next_seq_num_ <= MaxPings
    /\ \E id \in AgvIds :
        pending_probes_' = [pending_probes_ EXCEPT ![next_seq_num_] =
                                [agv |-> id, sent |-> lmNow]]
    /\ lmOp' = [op |-> "createPing", seq |-> next_seq_num_, resp |-> FALSE,
                ret |-> 0]
    /\ next_seq_num_' = next_seq_num_ + 1
    /\ UNCHANGED << stats_, lmNow, lmOthers >>

\* a call of LatencyMonitor::processPong with a probe of any sequence number
LmProcessPong ==
    /\ \E seq \in Seqs, is_response \in BOOLEAN :
        LET res == LatencyProcessPong(pending_probes_, stats_, seq,
                                      is_response, lmNow)
        IN  /\ pending_probes_' = res.pend
            /\ stats_' = res.st
            /\ lmOp' = [op |-> "processPong", seq |-> seq,
                        resp |-> is_response, ret |-> res.ret]
    /\ UNCHANGED << next_seq_num_, lmNow, lmOthers >>

\* LatencyMonitor::cleanupExpiredProbes(timeout_ms)
LmCleanupExpiredProbes ==
    /\ \E timeout_us \in {0, LmTickUs} :
        pending_probes_' =
            [q \in Seqs |-> IF pending_probes_[q] # NoProbe
                               /\ lmNow - pending_probes_[q].sent > timeout_us
                            THEN NoProbe ELSE pending_probes_[q]]
    /\ lmOp' = [op |-> "cleanup", seq |-> 0, resp |-> FALSE, ret |-> 0]
    /\ UNCHANGED << next_seq_num_, stats_, lmNow, lmOthers >>

\* time passes
LmTick ==
    /\ lmNow < MaxLmNow * LmTickUs
    /\ lmNow' = lmNow + LmTickUs
    /\ lmOp' = [op |-> "tick", seq |-> 0, resp |-> FALSE, ret |-> 0]
    /\ UNCHANGED << next_seq_num_, pending_probes_, stats_, lmOthers >>

NextLm == LmCreatePing \/ LmProcessPong \/ LmCleanupExpiredProbes \/ LmTick

Init == InitTQ /\ InitConn /\ InitGw /\ InitWk /\ InitPool /\ InitSm /\ InitCn
        /\ InitBuf /\ InitDp /\ InitLm

\* a dispatcher with nothing registered
InitDispatcher == Init /\ ~subReactor

SpecDp == InitDispatcher /\ [][NextDp]_vars

\* a monitor that has sent no probe
InitLatency == Init /\ ~subReactor

SpecLm == InitLatency /\ [][NextLm]_vars

\* the Connector of a client, idle before its first start()
InitConnector == Init /\ ~subReactor

SpecCn == InitConnector /\ [][NextCn]_vars

\* a Buffer constructed with any small initial size
InitBuffer ==
    /\ InitTQ /\ InitConn /\ InitGw /\ InitWk /\ InitPool /\ InitSm /\ InitCn
    /\ InitDp /\ InitLm /\ ~subReactor
    /\ \E initialSize \in 0..MaxInitialSize :
        buffer_ = NewBuffer(initialSize).store
    /\ readerIndex_ = kCheapPrepend
    /\ writerIndex_ = kCheapPrepend
    /\ bufBad = FALSE
    /\ bufOp = [op |-> "new"]
    /\ cdPending = << >>
    /\ cdCalls = 0

SpecBuffer == InitBuffer /\ [][NextBuffer]_vars

\* the codec's buffer: made with no initial size or with a small one
InitCodec ==
    /\ InitTQ /\ InitConn /\ InitGw /\ InitWk /\ InitPool /\ InitSm /\ InitCn
    /\ InitDp /\ InitLm /\ ~subReactor
    /\ \E initialSize \in {0, MaxInitialSize} :
        buffer_ = NewBuffer(initialSize).store
    /\ readerIndex_ = kCheapPrepend
    /\ writerIndex_ = kCheapPrepend
    /\ bufBad = FALSE
    /\ bufOp = [op |-> "new"]
    /\ cdPending = << >>
    /\ cdCalls = 0

SpecCodec == InitCodec /\ [][NextCodec]_vars

\* the session table with two I/O threads and one worker thread
InitSessions == Init /\ ~subReactor

SpecSessions == InitSessions /\ [][NextSm]_vars

\* the timer queue alone: the idle connection is one fixed connection
InitTimers == Init /\ ~subReactor

SpecTQ == InitTimers /\ [][NextTQ]_vars

SpecConn == Init /\ [][NextConn]_vars

\* the gateway with its sessions, watchdog and clock; reads deliver whole
\* what the vehicles sent
InitGateway == Init /\ ~subReactor

SpecGw == InitGateway /\ [][NextGw]_vars

\* one connection whose byte stream the network splits anywhere
InitFraming ==
    /\ InitTQ /\ InitConn /\ InitWk /\ InitPool /\ InitSm /\ InitCn /\ InitBuf
    /\ InitDp /\ InitLm
    /\ ~subReactor
    /\ gwNow = 0
    /\ connUp = [c \in Conns |-> c = 1]
    /\ connShutdown = [c \in Conns |-> FALSE]
    /\ inputBuffer_ = [c \in Conns |-> << >>]
    /\ inflight = [c \in Conns |-> << >>]
    /\ sentFrames = [c \in Conns |-> << >>]
    /\ dispatched = [c \in Conns |-> << >>]
    /\ junk = [c \in Conns |-> FALSE]
    /\ sessions_ = [id \in AgvIds |-> NoSession]
    /\ gwConnections_ = [id \in AgvIds |-> NoConn]
    /\ chargeSent = {}
    /\ gwOp = [op |-> "start", conn |-> NoConn, n |-> 0]
    /\ segmenting = TRUE
    /\ lowRun = [id \in AgvIds |-> [open |-> FALSE, cmds |-> 0]]
    /\ episodes = {}

SpecFraming == InitFraming /\ [][NextFraming]_vars

\* one vehicle on one connection reporting its battery level; what it sends
\* is read whole
InitCharge ==
    /\ InitTQ /\ InitConn /\ InitWk /\ InitPool /\ InitSm /\ InitCn /\ InitBuf
    /\ InitDp /\ InitLm
    /\ ~subReactor
    /\ gwNow = 0
    /\ connUp = [c \in Conns |-> c = 1]
    /\ connShutdown = [c \in Conns |-> FALSE]
    /\ inputBuffer_ = [c \in Conns |-> << >>]
    /\ inflight = [c \in Conns |-> << >>]
    /\ sentFrames = [c \in Conns |-> << >>]
    /\ dispatched = [c \in Conns |-> << >>]
    /\ junk = [c \in Conns |-> FALSE]
    /\ sessions_ = [id \in AgvIds |-> NoSession]
    /\ gwConnections_ = [id \in AgvIds |-> NoConn]
    /\ chargeSent = {}
    /\ gwOp = [op |-> "start", conn |-> NoConn, n |-> 0]
    /\ segmenting = FALSE
    /\ lowRun = [id \in AgvIds |-> [open |-> FALSE, cmds |-> 0]]
    /\ episodes = {}

SpecCharge == InitCharge /\ [][NextCharge]_vars

\* the worker pool started with any number of threads, none included
InitWorkers ==
    /\ InitTQ /\ InitConn /\ InitGw /\ InitPool /\ InitSm /\ InitCn /\ InitBuf
    /\ InitDp /\ InitLm
    /\ ~subReactor
    /\ numThreads \in 0..MaxThreads
    /\ queue_ = << >>
    /\ workerTask = [w \in Workers |-> NoTask]
    /\ workerStage = [w \in Workers |-> "idle"]
    /\ wkConnUp = TRUE
    /\ wkPending = << >>
    /\ taskState = [t \in Tasks |-> "none"]
    /\ wkResponses = [t \in Tasks |-> 0]
    /\ nextTask = 1

\* Worker threads and the I/O loop are threads of their own: a worker that
\* can take, check or finish a task does, and the loop runs a queued
\* functor.  The vehicle is under no obligation to send or to stay.
FairSpecWk ==
    /\ InitWorkers
    /\ [][NextWk]_vars
    /\ WF_vars(WorkerTake)
    /\ WF_vars(WorkerBegin)
    /\ WF_vars(WorkerFinish)
    /\ WF_vars(IoRunResponse)

\* The loop runs what is runnable: queued functors, ready channel events and
\* expired timers are eventually handled.  Calls of the user and the acts of
\* the peer are under no obligation.
FairSpecConn ==
    /\ Init
    /\ [][NextConn]_vars
    /\ WF_vars(DoPendingFunctors)
    /\ WF_vars(MainLoopRun)
    /\ WF_vars(HandleRead)
    /\ WF_vars(HandleWriteEvent)
    /\ WF_vars(DelayTimerFires)

\* the pool started with any number of worker threads, none included, and
\* with a bounded or an unbounded queue
InitThreadPool ==
    /\ InitTQ /\ InitConn /\ InitGw /\ InitWk /\ InitSm /\ InitCn /\ InitBuf
    /\ InitDp /\ InitLm
    /\ ~subReactor
    /\ maxQueueSize_ \in 0..MaxCap
    /\ poolThreads \in 0..MaxThreads
    /\ PoolStarted

SpecPool == InitThreadPool /\ [][NextPool]_vars

\* Every thread is scheduled: a worker that can test its loop, take or
\* wake up does, a running task returns, a woken producer goes on and the
\* thread in stop() returns from its joins.  Nobody is obliged to submit a
\* task or to call stop(), and no wait returns spuriously for sure.
FairSpecPool ==
    /\ InitThreadPool
    /\ [][NextPool]_vars
    /\ WF_vars(ThreadLoop)
    /\ WF_vars(ThreadTake)
    /\ WF_vars(ThreadWake)
    /\ WF_vars(TaskDone)
    /\ WF_vars(RunWake)
    /\ WF_vars(StopReturn)

(***************************************************************************)
(* C1: a repeating timer whose callback cancels the timer itself runs its  *)
(* callback only once: the cancellation is recorded although the timer is  *)
(* not in the active set while its callback runs, and when the batch is    *)
(* over the timer is deleted, not restarted and re-inserted.               *)
(***************************************************************************)
C1_SelfCancelNotRearmed ==
    \A i \in 1..Len(runLog) :
        (runLog[i].repeat /\ runLog[i].cancelsSelf) =>
            /\ \A j \in 1..Len(runLog) : j # i => runLog[j].seq # runLog[i].seq
            /\ \A p \in TimerAddrs : heap[p].seq # runLog[i].seq
            /\ \A id \in activeTimers_ : id[2] # runLog[i].seq

\* a repeating self-cancelling timer has run, and the clock has since passed
\* the time at which it would have fired again
C1_Witness ==
    \E i \in 1..Len(runLog) :
        /\ runLog[i].repeat
        /\ runLog[i].cancelsSelf
        /\ tq_now >= runLog[i].expiration + 2 * TickStep
        /\ i < Len(runLog)

(***************************************************************************)
(* C2: every change of the connection state follows the lifecycle.  As     *)
(* stated: Connecting to Connected on connectEstablished, Connected to     *)
(* Disconnecting on shutdown() with pending writes, to Disconnected on     *)
(* peer close, error or completed graceful shutdown, and nothing else.     *)
(***************************************************************************)
C2_Original ==
    [][state_' # state_ =>
        \/ /\ state_ = "kConnecting" /\ state_' = "kConnected"
           /\ lastOp' = "connectEstablished"
        \/ /\ state_ = "kConnected" /\ state_' = "kDisconnecting"
           /\ lastOp' = "shutdown" /\ outputBuffer_ # << >>
        \/ /\ state_' = "kDisconnected"
           /\ lastOp' \in {"handleReadEof", "handleError", "handleWrite"}
      ]_vars

\* C2 as amended: the transitions the code makes.  Connecting to Connected on
\* connectEstablished; Connected to Disconnecting on shutdown() (pending
\* writes or not), forceClose() and forceCloseWithDelay(); Connected or
\* Disconnecting to Disconnected when handleClose runs (a read of 0 bytes or
\* forceCloseInLoop); Connected to Disconnected on connectDestroyed.
C2_Lifecycle ==
    [][state_' # state_ =>
        \/ /\ state_ = "kConnecting" /\ state_' = "kConnected"
           /\ lastOp' = "connectEstablished"
        \/ /\ state_ = "kConnected" /\ state_' = "kDisconnecting"
           /\ lastOp' \in {"shutdown", "forceClose", "forceCloseWithDelay"}
        \/ /\ state_ \in {"kConnected", "kDisconnecting"}
           /\ state_' = "kDisconnected"
           /\ lastOp' \in {"handleReadEof", "forceCloseInLoop"}
        \/ /\ state_ = "kConnected" /\ state_' = "kDisconnected"
           /\ lastOp' = "connectDestroyed"
      ]_vars

\* a connection went through shutdown() and was then closed by the peer
C2_Witness ==
    /\ state_ = "kDisconnected"
    /\ shutLog # {}
    /\ lastOp = "handleReadEof"

(***************************************************************************)
(* C3: after shutdown() the write side of the socket is shut down only at  *)
(* a moment when the output buffer is empty, so a graceful shutdown loses  *)
(* no byte accepted into the output buffer.  As stated: every call of      *)
(* shutdownWrite finds the output buffer empty.                            *)
(***************************************************************************)
C3_Original ==
    \A e \in shutLog : e.buffered = 0

\* C3 as amended: shutdownWrite is only called once shutdown() has made the
\* state Disconnecting; while the connection is still Disconnecting it finds
\* the output buffer empty; it finds bytes left only when the connection has
\* already been closed (Disconnected) before a queued shutdownInLoop ran.
C3_ShutdownWhenDrained ==
    \A e \in shutLog :
        /\ e.state \in {"kDisconnecting", "kDisconnected"}
        /\ e.state = "kDisconnecting" => e.buffered = 0

\* shutdown(WR) was done by the write-ready handler after it drained the
\* output buffer of a Disconnecting connection
C3_Witness ==
    /\ lastOp = "handleWrite"
    /\ state_ = "kDisconnecting"
    /\ sockWrShut
    /\ wire # << >>
    /\ outputBuffer_ = << >>

C5_InvalidHeaderCloses ==
    \A c \in Conns :
        (/\ connUp[c]
         /\ Len(inputBuffer_[c]) >= kHeaderLen
         /\ TotalLenOutOfRange(PeekInt32(inputBuffer_[c])))
            => connShutdown[c]

(***************************************************************************)
(* C6: for a byte stream that is a concatenation of valid frames,          *)
(* delivered in any chunking, the frames dispatched are exactly the frames *)
(* wholly received, once each and in stream order, and the bytes of an     *)
(* incomplete trailing frame stay in the input buffer as they arrived.     *)
(***************************************************************************)
RECURSIVE FramesWithin(_, _)
FramesWithin(fs, n) ==
    IF fs = << >> \/ Len(Encode(Head(fs))) > n THEN 0
    ELSE 1 + FramesWithin(Tail(fs), n - Len(Encode(Head(fs))))

C6_InOrderExactlyOnce ==
    \A c \in Conns :
        (connUp[c] /\ ~junk[c]) =>
            LET stream == EncodeAll(sentFrames[c])
                received == Len(stream) - Len(inflight[c])
                whole == FramesWithin(sentFrames[c], received)
            IN  /\ dispatched[c] = SeqTake(sentFrames[c], whole)
                /\ inputBuffer_[c] =
                      SubSeq(stream, Len(EncodeAll(dispatched[c])) + 1, received)

\* frames of different lengths were sent, the first has been dispatched
\* and the second is partly in the input buffer, the rest of it still on
\* its way
C6_Witness ==
    /\ connUp[1] /\ ~junk[1]
    /\ Len(dispatched[1]) = 1
    /\ Len(sentFrames[1]) = 2
    /\ Len(Encode(sentFrames[1][1])) # Len(Encode(sentFrames[1][2]))
    /\ inputBuffer_[1] # << >>
    /\ inflight[1] # << >>

(***************************************************************************)
(* C7: each NavigationTask received on a connection produces exactly one   *)
(* response on that connection, eventually, as long as the connection      *)
(* stays open: never more than one response for a task, none for a task    *)
(* not received, and a received task leads to its response or to the       *)
(* connection being closed.                                                *)
(***************************************************************************)
C7_ExactlyOneResponse ==
    /\ [](\A t \in Tasks :
            /\ wkResponses[t] <= 1
            /\ wkResponses[t] = 1 => taskState[t] = "responded"
            /\ taskState[t] = "none" => wkResponses[t] = 0)
    /\ \A t \in Tasks :
            (taskState[t] # "none") ~> (wkResponses[t] = 1 \/ ~wkConnUp)

\* with two workers, three tasks have all been answered on the open
\* connection
C7_Witness ==
    /\ numThreads = 2
    /\ wkConnUp
    /\ \A t \in Tasks : wkResponses[t] = 1

(***************************************************************************)
(* C8: when a connection closes, every session whose connection is that    *)
(* connection is removed from the session table (and the sessions of the   *)
(* other connections stay).                                                *)
(***************************************************************************)
C8_CloseRemovesSessions ==
    [][\A c \in Conns :
        (connUp[c] /\ ~connUp'[c]) =>
            \A id \in AgvIds :
                IF gwConnections_[id] = c
                THEN sessions_'[id] = NoSession /\ gwConnections_'[id] = NoConn
                ELSE sessions_'[id] = sessions_[id]
                     /\ gwConnections_'[id] = gwConnections_[id]
      ]_vars

\* a connection that carried the sessions of both vehicles has closed
C8_Witness ==
    /\ gwOp.op = "onConnection"
    /\ gwOp.n = 2
    /\ \A id \in AgvIds : sessions_[id] = NoSession

(***************************************************************************)
(* C9: on each watchdog tick every session that is Online and has          *)
(* now - last_active_time > session_timeout is set Offline, and every      *)
(* session that is not Online or has not timed out keeps its state.        *)
(***************************************************************************)
C9_Original ==
    [][gwOp'.op = "onWatchdogTimer" =>
        \A id \in AgvIds :
            sessions_[id] # NoSession =>
                IF /\ sessions_[id].state = "ONLINE"
                   /\ gwNow - sessions_[id].last > SessionTimeoutMs * TicksPerMs
                THEN sessions_'[id].state = "OFFLINE"
                ELSE sessions_'[id].state = sessions_[id].state
      ]_vars

\* C9 as amended: the elapsed time is compared in whole milliseconds,
\* truncated.  An Online session whose elapsed time exceeds the timeout by
\* more than one millisecond is set Offline; a session that is not Online or
\* whose elapsed time does not exceed the timeout keeps its state; no
\* session gets another state than its own or Offline.
C9_WatchdogWholeMs ==
    [][gwOp'.op = "onWatchdogTimer" =>
        \A id \in AgvIds :
            sessions_[id] # NoSession =>
                /\ (/\ sessions_[id].state = "ONLINE"
                    /\ gwNow - sessions_[id].last
                          > (SessionTimeoutMs + 1) * TicksPerMs)
                      => sessions_'[id].state = "OFFLINE"
                /\ (\/ sessions_[id].state # "ONLINE"
                    \/ gwNow - sessions_[id].last
                          <= SessionTimeoutMs * TicksPerMs)
                      => sessions_'[id].state = sessions_[id].state
                /\ sessions_'[id].state \in {sessions_[id].state, "OFFLINE"}
      ]_vars

\* a watchdog tick has set one session Offline and left a Charging session,
\* registered no later, as it was
C9_Witness ==
    /\ gwOp.op = "onWatchdogTimer"
    /\ \E id \in AgvIds : sessions_[id].state = "OFFLINE"
    /\ \E id \in AgvIds : /\ sessions_[id].state = "CHARGING"
                          /\ gwNow - sessions_[id].last
                                > (SessionTimeoutMs + 1) * TicksPerMs

(***************************************************************************)
(* C10: the watchdog only turns Online into Offline: it removes no session *)
(* from the session table, changes no other field of a session and drops   *)
(* no connection.                                                          *)
(***************************************************************************)
C10_WatchdogKeepsSessions ==
    [][gwOp'.op = "onWatchdogTimer" =>
        /\ \A id \in AgvIds :
            /\ (sessions_[id] = NoSession) <=> (sessions_'[id] = NoSession)
            /\ sessions_'[id] \in
                  {sessions_[id], [sessions_[id] EXCEPT !.state = "OFFLINE"]}
        /\ gwConnections_' = gwConnections_
        /\ connUp' = connUp
        /\ connShutdown' = connShutdown
      ]_vars

\* the watchdog has just set a session Offline whose connection is up
C10_Witness ==
    /\ gwOp.op = "onWatchdogTimer"
    /\ \E id \in AgvIds :
        /\ sessions_[id].state = "OFFLINE"
        /\ gwConnections_[id] # NoConn
        /\ connUp[gwConnections_[id]]

(***************************************************************************)
(* C11: the low-battery rule fires once per low-battery episode: in every  *)
(* maximal run of consecutive Telemetry messages of a vehicle reporting a  *)
(* battery level below 20 the charge command is sent exactly once: never   *)
(* more than once while the run lasts, and once in every run that ended.   *)
(***************************************************************************)
C11_SingleFirePerEpisode ==
    /\ \A id \in AgvIds : lowRun[id].cmds <= 1
    /\ \A e \in episodes : e[2] = 1

C13_StopTerminates ==
    (stopPc = "joining") ~>
        /\ stopPc = "returned"
        /\ Joined(threadPc, poolThreads)
        /\ \A p \in Producers : producerPc[p] # "waitNotFull"

C13_Witness ==
    /\ stopPc = "joining"
    /\ \E p \in Producers : producerPc[p] = "waitNotFull"
    /\ \E w \in 1..poolThreads : threadPc[w] = "run"
    /\ \E w \in 1..poolThreads : threadPc[w] = "waitNotEmpty"

(***************************************************************************)
(* C14: with maxQueueSize_ > 0 the queue never holds more tasks than the   *)
(* cap, and a producer blocked in run() holds back its task while the pool *)
(* runs: the task is neither queued nor executed.                          *)
(***************************************************************************)
C14_QueueWithinCap ==
    /\ maxQueueSize_ > 0 => Len(poolQueue) <= maxQueueSize_
    /\ \A p \in Producers :
        producerPc[p] = "waitNotFull" =>
            /\ producerTask[p] \notin accepted
            /\ producerTask[p] \notin executed

C14_Witness ==
    /\ maxQueueSize_ > 0
    /\ Len(poolQueue) = maxQueueSize_
    /\ running_
    /\ \E p \in Producers : producerPc[p] = "waitNotFull"

C16_HandleSurvivesErase ==
    \A t \in IoThreads :
        ioThread[t].h.obj # NoObj =>
            /\ sessObjs[ioThread[t].h.obj].state = "live"
            /\ sessObjs[ioThread[t].h.obj].agv = ioThread[t].h.agv

\* a thread holds a handle to a session that is no longer in the map
C16_Witness ==
    \E t \in IoThreads :
        /\ ioThread[t].pc = "holding"
        /\ map_[ioThread[t].agv] = NoObj
        /\ smOp.op = "erase"
        /\ sessObjs[ioThread[t].h.obj].state = "live"

(***************************************************************************)
(* C17: a WorkerTask, queued or taken by the worker, always refers to the  *)
(* session it was enqueued with, alive and unchanged in identity, even     *)
(* when its connection is gone and the session was erased from the table.  *)
(***************************************************************************)
C17_TaskKeepsSession ==
    /\ \A i \in 1..Len(taskQueue) :
        /\ sessObjs[taskQueue[i].session].state = "live"
        /\ sessObjs[taskQueue[i].session].agv = taskQueue[i].agv
    /\ smWorker.pc # "idle" =>
        /\ sessObjs[smWorker.task.session].state = "live"
        /\ sessObjs[smWorker.task.session].agv = smWorker.task.agv

\* the worker has taken a task whose connection was destroyed and whose
\* session is in the table no more
C17_Witness ==
    /\ smWorker.pc = "taken"
    /\ tcpObjs[smWorker.task.conn] = "destroyed"
    /\ \A id \in AgvIds : map_[id] # smWorker.task.session
    /\ sessObjs[smWorker.task.session].state = "live"

(***************************************************************************)
(* C18: a WorkerTask whose weak connection cannot be upgraded is cancelled *)
(* silently: it gets no response and queues nothing on any loop, nothing   *)
(* touches a destroyed connection or session, and a worker that went on    *)
(* to store holds a connection that exists.                                *)
(***************************************************************************)
C18_CancelledSilently ==
    /\ \A n \in smCancelled :
        /\ smResponses[n] = 0
        /\ \A i \in 1..Len(loopFunctors) : loopFunctors[i].task # n
    /\ ~smFault
    /\ smWorker.pc = "storing" => tcpObjs[smWorker.task.conn] # "destroyed"
    /\ \A i \in 1..Len(loopFunctors) :
        tcpObjs[loopFunctors[i].conn] # "destroyed"

\* a task was cancelled because its connection was gone, and the worker has
\* gone on to the next task
C18_Witness ==
    /\ smCancelled # {}
    /\ smWorker.pc = "storing"
    /\ smWorker.task.id \notin smCancelled
    /\ \E c \in Conns : tcpObjs[c] = "destroyed"

(***************************************************************************)
(* C20: registerSession returns true when it inserted a new session and    *)
(* false when a session already existed under agv_id, and when it returns  *)
(* the session under agv_id refers to the connection given to it.          *)
(***************************************************************************)
C20_RegisterSession ==
    smOp.op = "registerSession" =>
        /\ smOp.ret = ~smOp.had
        /\ map_[smOp.agv] # NoObj
        /\ sessObjs[map_[smOp.agv]].conn = smOp.conn

(***************************************************************************)
(* C19: an AgvCommand is handled inline on the I/O thread and never placed *)
(* on the worker queue, however full the queue is: every command received  *)
(* has been forwarded or answered with an error by its handler, and no     *)
(* WorkerTask, queued or taken, carries a command.                         *)
(***************************************************************************)
C19_CommandsNeverQueued ==
    \A n \in 1..MaxSmCalls :
        /\ smCommands[n] # "none" =>
            /\ \A i \in 1..Len(taskQueue) : taskQueue[i].id # n
            /\ smWorker.task.id # n
            /\ n \notin smCancelled
            /\ smResponses[n] = 0
        /\ (smOp.op = "agvCommand" /\ n = smCalls) => smCommands[n] # "none"

\* a command was forwarded while a task was waiting in the worker queue
C19_Witness ==
    /\ smOp.op = "agvCommand"
    /\ smCommands[smCalls] = "forwarded"
    /\ taskQueue # << >>

(***************************************************************************)
(* C21: removeSessionByConnection(conn) erases every entry of the session  *)
(* table whose session's connection is conn, erases no other entry, and    *)
(* returns the number of entries it erased.                                *)
(***************************************************************************)
C21_RemoveByConnection ==
    [][smOp'.op = "close" =>
        LET c == smOp'.conn
            match == {id \in AgvIds : /\ map_[id] # NoObj
                                      /\ sessObjs[map_[id]].conn = c}
        IN  /\ \A id \in match : map_'[id] = NoObj
            /\ \A id \in AgvIds \ match : map_'[id] = map_[id]
            /\ smOp'.n = Cardinality(match)]_vars

\* a connection that carried both vehicles' sessions went down and both
\* entries were erased, or it carried one and the other vehicle's stayed
C21_Witness ==
    /\ smOp.op = "close"
    /\ \/ smOp.n = 2
       \/ smOp.n = 1 /\ \E id \in AgvIds : map_[id] # NoObj

(***************************************************************************)
(* C22: the Connector retries with delays 500 ms, 1 s, 2 s, ... doubling   *)
(* and capped at 30 s: the k-th retry scheduled since the Connector was    *)
(* made or restarted is scheduled min(500 * 2^(k-1), 30000) ms after the   *)
(* failure that caused it.                                                 *)
(***************************************************************************)
RECURSIVE Pow2(_)
Pow2(n) == IF n <= 0 THEN 1 ELSE 2 * Pow2(n - 1)

C22_RetryBackoff ==
    cnOp.scheduled =>
        cnOp.delay = Min(kInitRetryDelayMs * Pow2(cnOp.k - 1), kMaxRetryDelayMs)

\* the seventh retry in a row, the first whose doubled delay meets the cap
C22_Witness ==
    /\ cnOp.scheduled
    /\ cnOp.k = 7
    /\ cnOp.delay = kMaxRetryDelayMs

(***************************************************************************)
(* C23: a self-connect found when the non-blocking connect completes is    *)
(* treated as a failed connection: the new-connection callback is not      *)
(* invoked, the socket is closed, and the Connector retries with           *)
(* exponential backoff.  The retry is scheduled only while the Connector   *)
(* is wanted (connect_): after stop() the socket is closed and that is all.*)
(***************************************************************************)
SelfConnectHandled == cnOp.op = "handleWrite" /\ cnOp.outcome = "selfConnect"

\* the claim as stated: every self-connect is followed by a retry
C23_Original ==
    SelfConnectHandled => ~cnOp.callback /\ cnOp.closed /\ cnOp.scheduled

C23_SelfConnectFails ==
    SelfConnectHandled =>
        /\ ~cnOp.callback
        /\ cnOp.closed /\ ~sockOpen
        /\ connectorState = "kDisconnected"
        /\ cnOp.scheduled <=> connect_
        /\ cnOp.scheduled =>
               retryDelayMs_ = Min(cnOp.delay * 2, kMaxRetryDelayMs)

\* a second self-connect in a row, retried after the doubled delay
C23_Witness ==
    /\ SelfConnectHandled
    /\ cnOp.scheduled
    /\ cnOp.delay = 2 * kInitRetryDelayMs

(***************************************************************************)
(* C24: forceCloseWithDelay schedules forceClose under a weak-reference    *)
(* guard.  When its timer fires after the connection has been destroyed,   *)
(* the callback is skipped and no field of the connection changes; when    *)
(* the connection is still alive, forceClose is applied: a connection that *)
(* is Connected or Disconnecting becomes Disconnecting with                *)
(* forceCloseInLoop queued, any other is left as it is.                    *)
(***************************************************************************)
DelayTimerFired == delayTimer' = delayTimer - 1

ConnFields == << state_, reading, writing, outputBuffer_, pendingFunctors_,
                 mainPending, connections_, wire, sockWrShut, downCalls >>

C24_WeakForceClose ==
    [][DelayTimerFired =>
        IF Alive
        THEN /\ lastOp' = "weakCallback"
             /\ IF state_ \in {"kConnected", "kDisconnecting"}
                THEN /\ state_' = "kDisconnecting"
                     /\ pendingFunctors_' =
                            Append(pendingFunctors_,
                                   Functor("forceCloseInLoop", << >>))
                ELSE UNCHANGED ConnFields
        ELSE /\ lastOp' = "weakCallbackSkipped"
             /\ UNCHANGED ConnFields]_vars

\* the timer has fired on a destroyed connection, and on a live one
C24_Witness == lastOp = "weakCallbackSkipped" /\ ~Alive /\ delayTimer = 0

C24_WitnessAlive ==
    /\ lastOp = "weakCallback"
    /\ state_ = "kDisconnecting"
    /\ Len(pendingFunctors_) > 0
    /\ pendingFunctors_[Len(pendingFunctors_)].f = "forceCloseInLoop"

(***************************************************************************)
(* C30: after any sequence of Buffer operations (append, retrieve,         *)
(* prepend, integer read and write, space reclamation) the indices satisfy *)
(* 0 <= prepend_size <= reader <= writer <= size, prepend_size being the   *)
(* fixed 8-byte prepend zone; in particular the writer index never passes  *)
(* the end of the backing store after an append.                           *)
(***************************************************************************)
C30_Original ==
    /\ ~bufBad
    /\ kCheapPrepend <= readerIndex_
    /\ readerIndex_ <= writerIndex_
    /\ writerIndex_ <= Len(buffer_)

\* C30 without the lower bound that a prepend is meant to cross: the reader
\* index is not past the writer index, no append has copied past the end of
\* the backing store and the writer index is within it
C30_BufferIndices ==
    /\ ~bufBad
    /\ 0 <= readerIndex_
    /\ readerIndex_ <= writerIndex_
    /\ writerIndex_ <= Len(buffer_)

(***************************************************************************)
(* C25: hasCompleteMessage(buf) returns true if and only if at least 8     *)
(* bytes are readable, the big-endian unsigned 32-bit number at the read   *)
(* position is within [9, 10 MiB], and at least that many bytes are        *)
(* readable; it never consumes bytes from the buffer.                      *)
(***************************************************************************)
\* the unsigned number in the first four bytes is within [lo, hi]: with a
\* non-zero first byte it is at least 2^24, which is above 10 MiB
PeekU32Within(buf, lo, hi) ==
    /\ buf[1] = 0
    /\ buf[2] * 65536 + buf[3] * 256 + buf[4] >= lo
    /\ buf[2] * 65536 + buf[3] * 256 + buf[4] <= hi

CompleteFrameBuffered(buf) ==
    /\ Len(buf) >= 8
    /\ PeekU32Within(buf, 9, 10 * 1024 * 1024)
    /\ PeekU32Within(buf, 9, Len(buf))

C25_HasCompleteMessage ==
    [][(bufOp'.op = "hasCompleteMessage" /\ cdCalls' = cdCalls + 1) =>
        /\ bufOp'.ret <=> CompleteFrameBuffered(Readable(Buf))
        /\ UNCHANGED << buffer_, readerIndex_, writerIndex_ >>]_vars

\* answered true on a whole frame, and false on a header of a 10 MiB frame
\* whose payload has not arrived
C25_Witness ==
    /\ bufOp.op = "hasCompleteMessage"
    /\ bufOp.ret
    /\ ReadableBytes(Buf) >= 9

C25_WitnessIncomplete ==
    /\ bufOp.op = "hasCompleteMessage"
    /\ ~bufOp.ret
    /\ ReadableBytes(Buf) >= 8
    /\ PeekU32Within(Readable(Buf), 9, 10 * 1024 * 1024)

(***************************************************************************)
(* C26: for a non-empty payload p of at most 10 MiB - 8 bytes, any 16-bit  *)
(* type and any 16-bit flags, encode onto an empty buffer followed by      *)
(* decode yields exactly (type, flags, p) and consumes exactly the encoded *)
(* frame.                                                                  *)
(***************************************************************************)
C26_RoundTrip ==
    (bufOp.op = "decode" /\ bufOp.expect # << >>
        /\ bufOp.expect[1].payload # << >>) =>
        /\ bufOp.ok
        /\ bufOp.type = bufOp.expect[1].type
        /\ bufOp.flags = bufOp.expect[1].flags
        /\ bufOp.payload = bufOp.expect[1].payload
        /\ bufOp.before - bufOp.after = kHeaderLen + Len(bufOp.expect[1].payload)
        /\ ReadableBytes(Buf) = 0

\* a frame of type and flags 0xFFFF with a two-byte payload came back
C26_Witness ==
    /\ bufOp.op = "decode"
    /\ bufOp.expect # << >>
    /\ bufOp.ok
    /\ bufOp.type = 65535
    /\ bufOp.flags = 65535
    /\ bufOp.payload = << 7, 200 >>

(***************************************************************************)
(* C27: encode rejects an empty payload: it reports failure and appends    *)
(* nothing to the output buffer.                                           *)
(***************************************************************************)
C27_EncodeRejectsEmpty ==
    (bufOp.op = "encode" /\ bufOp.payload = << >>) =>
        ~bufOp.ok /\ bufOp.after = bufOp.before

(***************************************************************************)
(* C28: a handler registered for message type T is invoked only with a     *)
(* fully parsed instance of T.  When the payload does not parse as T,      *)
(* dispatch returns false and no handler is invoked at all; a handler      *)
(* registered for another type is never invoked for the message.           *)
(***************************************************************************)
C28_TypedDispatch ==
    (dpOp.op = "dispatch" /\ handlers_[dpOp.type] # NoHandler) =>
        /\ \A inv \in dpOp.invoked :
            /\ inv.key = dpOp.type
            /\ inv.cls = handlers_[dpOp.type]
            /\ inv.msg = dpOp.payload
            /\ inv.parsed
        /\ ~dpOp.dflt
        /\ IF ParseAs(handlers_[dpOp.type], dpOp.payload)
           THEN dpOp.ret /\ Cardinality(dpOp.invoked) = 1
           ELSE ~dpOp.ret /\ dpOp.invoked = {}

\* a payload that is no telemetry message was dispatched to the telemetry
\* handler while a heartbeat handler and a default callback are registered
C28_Witness ==
    /\ dpOp.op = "dispatch"
    /\ dpOp.type = MSG_AGV_TELEMETRY
    /\ handlers_[MSG_AGV_TELEMETRY] = "AgvTelemetry"
    /\ handlers_[MSG_HEARTBEAT] = "Heartbeat"
    /\ defaultCallback_
    /\ dpOp.payload = << 1 >>
    /\ ~dpOp.ret

(***************************************************************************)
(* C29: processPong(pong) returns -1.0 and changes neither the pending set *)
(* nor any statistics when no pending entry with the pong's sequence       *)
(* number exists; otherwise it erases that entry, updates the statistics   *)
(* of the entry's vehicle with the round-trip time and returns it, so each *)
(* Ping is matched by at most one Pong.  A probe not marked as a response  *)
(* is treated like one with no pending entry.                              *)
(***************************************************************************)
PongMatched(seq) ==
    /\ pending_probes_' = [pending_probes_ EXCEPT ![seq] = NoProbe]
    /\ lmOp'.ret = lmNow - pending_probes_[seq].sent
    /\ stats_' = [stats_ EXCEPT ![pending_probes_[seq].agv] =
                    [latest |-> lmOp'.ret,
                     count |-> @.count + 1,
                     total |-> @.total + lmOp'.ret,
                     min |-> IF lmOp'.ret < @.min THEN lmOp'.ret ELSE @.min,
                     max |-> IF lmOp'.ret > @.max THEN lmOp'.ret ELSE @.max]]

PongIgnored ==
    /\ lmOp'.ret = NotFoundRtt
    /\ UNCHANGED << pending_probes_, stats_ >>

\* the claim as stated: the outcome depends on the pending entry alone
C29_Original ==
    [][lmOp'.op = "processPong" =>
        IF pending_probes_[lmOp'.seq] = NoProbe THEN PongIgnored
        ELSE PongMatched(lmOp'.seq)]_vars

C29_ProcessPong ==
    [][lmOp'.op = "processPong" =>
        IF pending_probes_[lmOp'.seq] = NoProbe \/ ~lmOp'.resp
        THEN PongIgnored
        ELSE PongMatched(lmOp'.seq)]_vars

\* a second Pong for a Ping already matched has been turned away
C29_Witness ==
    /\ lmOp.op = "processPong"
    /\ lmOp.resp
    /\ lmOp.ret = NotFoundRtt
    /\ lmOp.seq < next_seq_num_
    /\ \E id \in AgvIds : stats_[id].count = 1 /\ stats_[id].latest > 0

C29_WitnessMatched ==
    /\ lmOp.op = "processPong"
    /\ lmOp.ret = 2 * LmTickUs
    /\ pending_probes_[lmOp.seq] = NoProbe

(***************************************************************************)
(* C31: for a closed connection removeConnection marshals to the main      *)
(* loop, the connection is erased from the server's connection map there,  *)
(* and only after that erase is connectDestroyed posted to and run on the  *)
(* connection's own loop.                                                  *)
(***************************************************************************)
DestroyPosted(q) == \E i \in 1..Len(q) : q[i].f = "connectDestroyed"

C31_EraseBeforeDestroy ==
    /\ [](DestroyPosted(pendingFunctors_) => ~connections_)
    /\ [](lastOp = "connectDestroyed" => ~connections_)
    /\ [][(Len(mainPending') > Len(mainPending)) =>
            /\ connections_' = connections_
            /\ DestroyPosted(pendingFunctors_') =>
                   DestroyPosted(pendingFunctors_)]_vars
    /\ [][(subReactor /\ connections_ /\ ~connections_'
             /\ lastOp' # "serverDtor") =>
            /\ lastOp' = "removeConnectionInLoop"
            /\ mainPending' = Tail(mainPending)
            /\ pendingFunctors_' =
                   Append(pendingFunctors_,
                          Functor("connectDestroyed", << >>))]_vars

\* connectDestroyed has run on the sub-reactor of a connection that the
\* peer closed, after the main loop erased it
C31_Witness ==
    /\ subReactor
    /\ lastOp = "connectDestroyed"
    /\ ~connections_
    /\ peer = "fin"
    /\ downCalls = 1
    /\ mainPending = << >>

(***************************************************************************)
(* C32: a session's battery_level always satisfies                         *)
(* 0 <= battery_level <= 100, whatever battery values arrive in Telemetry  *)
(* messages.                                                               *)
(***************************************************************************)
C32_BatteryInRange ==
    \A id \in AgvIds :
        sessions_[id] # NoSession =>
            sessions_[id].battery >= 0 /\ sessions_[id].battery <= 100


(***************************************************************************)
(* C33: once cancel(id) has been executed on the loop thread, the callback *)
(* of timer id is never invoked afterwards, also when the cancel is issued *)
(* by the callback of another timer of the same expired batch.  Every run  *)
(* of a callback is logged with whether cancelInLoop had already executed  *)
(* for the timer's sequence number.                                        *)
(***************************************************************************)
C33_CancelledNeverRuns ==
    \A i \in 1..Len(runLog) : ~runLog[i].cancelled

(***************************************************************************)
(* C34: under any interleaving of start(), stop(), restart() and pending   *)
(* retry timers a Connector has at most one connect attempt in flight:     *)
(* startInLoop runs only while the state is Disconnected, so its assertion *)
(* never fails and it never calls connect() over an attempt that is still  *)
(* Connecting or Connected, also when the retry timer that runs it was     *)
(* scheduled before a stop()/start() pair or a restart().  The formula     *)
(* states it of every startInLoop that a retry timer runs.                 *)
(***************************************************************************)
C34_StartOnlyDisconnected ==
    /\ [](cnFault => cnOp.op # "retryTimer")
    /\ [][(cnOp'.op = "retryTimer" /\ cnOp' # cnOp) =>
            connectorState = "kDisconnected"]_vars

(***************************************************************************)
(* C35: when several threads call registerSession concurrently with the    *)
(* same agv_id that has no session, exactly one of the calls returns true  *)
(* and the others return false: a call that returns true is the one that   *)
(* created the session, so no session was stored under agv_id at the       *)
(* moment it inserted.                                                     *)
(***************************************************************************)
C35_OneRegistrationWins ==
    (smOp.op = "registerSession" /\ smOp.ret) => ~smOp.had

(***************************************************************************)
(* C36: for every connection that reached Connected the connection-down    *)
(* notification is delivered exactly once, whichever combination of peer   *)
(* close, forceClose, forceCloseWithDelay and connectDestroyed occurs: it  *)
(* is never delivered twice, and a connection that has been destructed     *)
(* (neither the server map nor a queued functor owns it) has had it.       *)
(***************************************************************************)
C36_DownExactlyOnce ==
    /\ downCalls <= 1
    /\ ~Alive => downCalls = 1

(***************************************************************************)
(* C37: the bytes written to the socket are exactly a prefix of the        *)
(* concatenation, in execution order, of the data passed to sendInLoop:    *)
(* between the direct writes and the buffered remainder that handleWrite   *)
(* drains no byte is reordered, duplicated or skipped.                     *)
(***************************************************************************)
C37_WirePrefix ==
    /\ Len(wire) <= Len(sendLog)
    /\ wire = SeqTake(sendLog, Len(wire))

\* a sendInLoop queued from another thread ran after a later send() of the
\* loop thread had written directly; its data was buffered and then drained
C37_Witness ==
    /\ lastOp = "handleWrite"
    /\ sendLog = << 2, 1 >>
    /\ wire = << 2, 1 >>
    /\ outputBuffer_ = << >>

\* a partial direct write followed by the drain of the remainder
C37_WitnessPartial ==
    /\ lastOp = "handleWrite"
    /\ sendLog = << 1, 2 >>
    /\ wire = << 1, 2 >>
    /\ state_ = "kConnected"
    /\ nextByte = 3
    /\ pendingFunctors_ = << >>

(***************************************************************************)
(* C38: while a connection is Connected or Disconnecting, write-readiness  *)
(* interest is enabled on its channel if and only if its output buffer is  *)
(* non-empty (between loop callbacks).                                     *)
(***************************************************************************)
C38_WritingIffBuffered ==
    state_ \in {"kConnected", "kDisconnecting"} =>
        (writing <=> outputBuffer_ # << >>)

\* a write-ready event wrote part of the buffered bytes: the rest stays in
\* the output buffer and write interest stays enabled
C38_Witness ==
    /\ lastOp = "handleWrite"
    /\ state_ = "kConnected"
    /\ writing
    /\ Len(outputBuffer_) = 1
    /\ Len(wire) = 1

\* a write-ready event drained the buffer of a Disconnecting connection
C38_WitnessDrained ==
    /\ lastOp = "handleWrite"
    /\ state_ = "kDisconnecting"
    /\ ~writing
    /\ outputBuffer_ = << >>
    /\ Len(wire) = 2

(***************************************************************************)
(* C39: a session that the watchdog has set to Offline returns to Online   *)
(* when a later Telemetry or Heartbeat message from that vehicle is        *)
(* processed: a step in which a handler refreshes the active time of an    *)
(* Offline session leaves that session Online.                             *)
(***************************************************************************)
C39_MessageRevivesOffline ==
    [][\A id \in AgvIds :
          (/\ sessions_[id] # NoSession
           /\ sessions_[id].state = "OFFLINE"
           /\ sessions_'[id] # NoSession
           /\ sessions_'[id].last # sessions_[id].last) =>
              sessions_'[id].state = "ONLINE"]_vars

(***************************************************************************)
(* C40: every task accepted by ThreadPool::run() is executed at most once, *)
(* by a single worker thread, under any interleaving of producers,         *)
(* consumers and stop(): a task is at any moment in exactly one place, one *)
(* slot of the queue, the hands of one worker, or finished, and only       *)
(* accepted tasks are ever taken or executed.                              *)
(***************************************************************************)
C40_ExecutedAtMostOnce ==
    LET held(w) == threadPc[w] = "run"
    IN  /\ \A i, j \in 1..Len(poolQueue) :
              i # j => poolQueue[i] # poolQueue[j]
        /\ \A w, v \in 1..poolThreads :
              (w # v /\ held(w) /\ held(v)) => threadTask[w] # threadTask[v]
        /\ \A w \in 1..poolThreads :
              held(w) => /\ threadTask[w] \in accepted
                         /\ threadTask[w] \notin Range(poolQueue)
                         /\ threadTask[w] \notin executed
        /\ Range(poolQueue) \cap executed = {}
        /\ Range(poolQueue) \subseteq accepted
        /\ executed \subseteq accepted

\* two workers run two different tasks at the same time after a third task
\* has been finished, while stop() is joining
C40_Witness ==
    /\ poolThreads = 2
    /\ threadPc[1] = "run"
    /\ threadPc[2] = "run"
    /\ threadTask[1] # threadTask[2]
    /\ executed # {}
    /\ stopPc = "joining"
=============================================================================
